---------------------------- MODULE Spec2Model ----------------------------
(***************************************************************************)
(* Model of the site-audit request handler (six-pillar POST handler of     *)
(* src/unnamed/part_000, lines 1-735).                                     *)
(*                                                                         *)
(* One request is followed from its arrival to its response: the body is   *)
(* validated, the four outbound fetches are issued, they settle in any     *)
(* order, and the synchronous tail of the handler (HTML parsing, keyword   *)
(* extraction, pillar scoring, recommendation building) produces the       *)
(* response.  Strings are TLA+ strings; Lighthouse scores, which are       *)
(* fractions in [0,1], are carried as integer hundredths (0..100).         *)
(***************************************************************************)
EXTENDS Integers, Sequences, FiniteSets, TLC

VARIABLES pc, reqBody, url, issued, upstream, response, work

vars == <<pc, reqBody, url, issued, upstream, response, work>>

-----------------------------------------------------------------------------
(* Strings                                                                 *)

Min2(a, b) == IF a <= b THEN a ELSE b

Max2(a, b) == IF a >= b THEN a ELSE b

CharAt(s, i) == SubSeq(s, i, i)

\* a function over 1..n as an explicit array
ArrayOf(f) == SubSeq(f, 1, Len(f))

\* F applied to the value of v
With(v, F(_)) == CHOOSE r \in { F(x) : x \in {v} } : TRUE

IsWs(c) == c \in {" ", "\n", "\t"}

StartsWith(s, p) == Len(s) >= Len(p) /\ SubSeq(s, 1, Len(p)) = p

EndsWith(s, p) == Len(s) >= Len(p) /\ SubSeq(s, Len(s) - Len(p) + 1, Len(s)) = p

Includes(s, p) ==
    \E i \in 0..(Len(s) - Len(p)) : SubSeq(s, i + 1, i + Len(p)) = p

RECURSIVE TrimStart(_)
TrimStart(s) ==
    IF Len(s) > 0 /\ IsWs(CharAt(s, 1)) THEN TrimStart(SubSeq(s, 2, Len(s))) ELSE s

RECURSIVE TrimEnd(_)
TrimEnd(s) ==
    IF Len(s) > 0 /\ IsWs(CharAt(s, Len(s))) THEN TrimEnd(SubSeq(s, 1, Len(s) - 1)) ELSE s

Trim(s) == TrimEnd(TrimStart(s))

\* position of the first occurrence of the one-character string c in s, 0 if none
IndexOf(s, c) ==
    LET hits == { i \in 1..Len(s) : CharAt(s, i) = c }
    IN  IF hits = {} THEN 0 ELSE CHOOSE i \in hits : \A j \in hits : i <= j

\* the concatenation of F(a), F(a+1), ..., F(b)
RECURSIVE ConcatRange(_, _, _)
ConcatRange(F(_), a, b) ==
    IF a > b THEN ""
    ELSE IF a = b THEN F(a)
    ELSE LET m == (a + b) \div 2 IN ConcatRange(F, a, m) \o ConcatRange(F, m + 1, b)

\* s with every character c replaced by F(c)
MapChars(s, F(_)) ==
    With(s, LAMBDA str : LET At(i) == F(CharAt(str, i)) IN ConcatRange(At, 1, Len(str)))

-----------------------------------------------------------------------------
(* URL parsing (new URL(...)) for the URL strings of the model: a special  *)
(* scheme, an authority without port or credentials, a path.               *)

RECURSIVE SkipSlashes(_)
SkipSlashes(s) ==
    IF Len(s) > 0 /\ CharAt(s, 1) = "/" THEN SkipSlashes(SubSeq(s, 2, Len(s))) ELSE s

EncodeSpaces(s) == MapChars(s, LAMBDA c : IF c = " " THEN "%20" ELSE c)

ParseURL(u) ==
    LET scheme == IF StartsWith(u, "https://") THEN "https://"
                  ELSE IF StartsWith(u, "http://") THEN "http://" ELSE ""
        rest   == SkipSlashes(SubSeq(u, Len(scheme) + 1, Len(u)))
        cut    == IndexOf(rest, "/")
        host   == IF cut = 0 THEN rest ELSE SubSeq(rest, 1, cut - 1)
        path   == IF cut = 0 THEN "/" ELSE EncodeSpaces(SubSeq(rest, cut, Len(rest)))
        ok     == scheme # "" /\ Len(host) > 0 /\ ~Includes(host, " ")
    IN  IF ok
        THEN [ok |-> TRUE, origin |-> scheme \o host, hostname |-> host, pathname |-> path]
        ELSE [ok |-> FALSE, origin |-> "", hostname |-> "", pathname |-> ""]


-----------------------------------------------------------------------------
(* Nullable values (string | null, number | null)                          *)

Null == [some |-> FALSE]

Some(v) == [some |-> TRUE, v |-> v]

-----------------------------------------------------------------------------
(* Request bodies.  json = FALSE is a body req.json() cannot parse; a JSON *)
(* body is null or an object whose url member has the given JS type.       *)

RawUrlStrings ==
    { "", "  ", "exa mple.com", "https://", "http://exa mple.com",
      " example.com/audit ", "http://example.com", "https://example.com/seo_audit" }

RequestBodies ==
    { [json |-> FALSE, isNull |-> FALSE, urlType |-> "undefined", urlStr |-> ""],
      [json |-> TRUE,  isNull |-> TRUE,  urlType |-> "undefined", urlStr |-> ""] }
    \cup { [json |-> TRUE, isNull |-> FALSE, urlType |-> t, urlStr |-> ""] :
              t \in {"undefined", "null", "number", "object"} }
    \cup { [json |-> TRUE, isNull |-> FALSE, urlType |-> "string", urlStr |-> s] :
              s \in RawUrlStrings }

\* lines 603: !rawUrl || typeof rawUrl !== "string"
RawUrlRejected(body) == body.urlType # "string" \/ body.urlStr = ""

\* variant that prepends https:// to every url
NormalizeUrlAlwaysPrefixed(raw) == "https://" \o Trim(raw)

\* lines 606-607
NormalizeUrl(raw) ==
    LET t == Trim(raw)
    IN  IF ~StartsWith(t, "http://") /\ ~StartsWith(t, "https://") THEN "https://" \o t ELSE t

Endpoints == {"psi", "html", "robots", "sitemap"}

NoResponse == [status |-> 0]

ErrorResponse(status, msg) == [status |-> status, error |-> msg]

MsgNoUrl      == "Please provide a valid URL."
MsgBadUrl     == "That doesn't look like a valid URL. Try something like example.com"
MsgPsiFailed  == "Analysis timed out. The site may be very slow or down."
MsgRateLimit  == "Rate limit reached. Please wait 30 seconds and try again."
MsgNoResult   == "Could not analyse this URL. Make sure it's publicly accessible."
MsgUnexpected == "Something went wrong. Please try again."


-----------------------------------------------------------------------------
(* Text helpers used by the HTML parser and the keyword extractor          *)

UpperChars == "ABCDEFGHIJKLMNOPQRSTUVWXYZ"
LowerChars == "abcdefghijklmnopqrstuvwxyz"
DigitChars == "0123456789"

CharsOf(s) == { CharAt(s, i) : i \in 1..Len(s) }

UpperSet == CharsOf(UpperChars)
LowerSet == CharsOf(LowerChars)
DigitSet == CharsOf(DigitChars)

LowerOf == [c \in UpperSet |-> CharAt(LowerChars, IndexOf(UpperChars, c))]

IsDigit(c) == c \in DigitSet

IsLetter(c) == c \in LowerSet \/ c \in UpperSet

\* \w of a regular expression
IsWordChar(c) == IsLetter(c) \/ IsDigit(c) \/ c = "_"

LowerChar(c) == IF c \in UpperSet THEN LowerOf[c] ELSE c

\* String.prototype.toLowerCase
ToLower(s) == MapChars(s, LowerChar)

\* .replace(/\s+/g, " "): every run of whitespace becomes one space
CollapseWs(s) ==
    LET At(i) == IF ~IsWs(CharAt(s, i)) THEN CharAt(s, i)
                 ELSE IF i > 1 /\ IsWs(CharAt(s, i - 1)) THEN "" ELSE " "
    IN  ConcatRange(At, 1, Len(s))

\* strip(): .replace(/\s+/g, " ").trim() (the texts of the model carry no nested tags)
Strip(s) == Trim(CollapseWs(s))

\* s.split(/\s+/) without the empty strings: the whitespace-separated tokens, in order
SplitWs(s) ==
    With(s, LAMBDA str :
      With({ i \in 1..Len(str) :
               ~IsWs(CharAt(str, i)) /\ (i = 1 \/ IsWs(CharAt(str, i - 1))) }, LAMBDA starts :
        ArrayOf([k \in 1..Cardinality(starts) |->
                   LET from == CHOOSE x \in starts : Cardinality({ y \in starts : y < x }) = k - 1
                       to   == CHOOSE j \in from..Len(str) :
                                  /\ \A m \in from..j : ~IsWs(CharAt(str, m))
                                  /\ (j = Len(str) \/ IsWs(CharAt(str, j + 1)))
                   IN  SubSeq(str, from, to)])))

\* .replace(/[^a-z0-9\s]/g, " ")
AlnumOnly(s) ==
    MapChars(s, LAMBDA c : IF c \in LowerSet \/ IsDigit(c) \/ IsWs(c) THEN c ELSE " ")

RECURSIVE JoinFrom(_, _)
JoinFrom(ss, i) ==
    IF i > Len(ss) THEN ""
    ELSE IF i = Len(ss) THEN ss[i]
    ELSE ss[i] \o " " \o JoinFrom(ss, i + 1)

\* Array.prototype.join(" ")
JoinSp(ss) == JoinFrom(ss, 1)

RECURSIVE SeqSum(_)
SeqSum(ns) == IF Len(ns) = 0 THEN 0 ELSE Head(ns) + SeqSum(Tail(ns))

SeqToSet(q) == { q[i] : i \in 1..Len(q) }

SelectIdx(q, Test(_)) == { i \in 1..Len(q) : Test(q[i]) }

CountSeq(q, Test(_)) == Cardinality(SelectIdx(q, Test))


-----------------------------------------------------------------------------
(* The fetched HTML document.  A document is described by what the regular *)
(* expressions of parseHTML can see in it:                                 *)
(*   title, metaDescription, canonical, lang, robotsMeta, twitterCard :    *)
(*       nullable strings (the tag or attribute is absent when Null)       *)
(*   viewport, hreflang : the tag is present                               *)
(*   body    : the text-bearing elements in document order, each           *)
(*             [tag, text, rep]; rep > 1 stands for rep consecutive        *)
(*             elements with the same tag and text                         *)
(*   imgs    : the alt attribute of every <img> (Null when it has none)    *)
(*   hrefs   : the href attribute of every <a>                             *)
(*   og      : the <meta property="og:..."> tags in order, [prop, content] *)
(*   ldjson  : the JSON-LD script blocks in order; a block is              *)
(*             [valid, items], an item [isNull, types], a type value       *)
(*             [isStr, v]                                                  *)
(* Element texts carry no nested tags, and no phone number spans two       *)
(* elements.                                                               *)

HeadingTexts(doc, tag) ==
    LET RECURSIVE Collect(_)
        Collect(i) ==
            IF i > Len(doc.body) THEN <<>>
            ELSE (IF doc.body[i].tag = tag
                  THEN ArrayOf([k \in 1..doc.body[i].rep |-> Strip(doc.body[i].text)])
                  ELSE <<>>) \o Collect(i + 1)
    IN  Collect(1)

\* textHtml (lines 122-126) as a sequence of units [text, rep]: the title text, then
\* the body elements' texts, whitespace collapsed, units separated by one space
TextUnits(doc) ==
    LET head == IF doc.title.some /\ Strip(doc.title.v) # ""
                THEN <<[text |-> Strip(doc.title.v), rep |-> 1]>> ELSE <<>>
        RECURSIVE Collect(_)
        Collect(i) ==
            IF i > Len(doc.body) THEN <<>>
            ELSE (IF Strip(doc.body[i].text) # "" /\ doc.body[i].rep > 0
                  THEN <<[text |-> Strip(doc.body[i].text), rep |-> doc.body[i].rep]>>
                  ELSE <<>>) \o Collect(i + 1)
    IN  head \o Collect(1)

\* textHtml.split(/\s+/).filter(w => w.length > 1).length
WordCountOf(units) ==
    LET LongTok(w) == Len(w) > 1
    IN  SeqSum([i \in 1..Len(units) |->
                  units[i].rep * CountSeq(SplitWs(units[i].text), LongTok)])

BodyTextCap == 5000

\* textHtml.slice(0, cap) as units; the last unit may be a cut-off prefix
RECURSIVE SliceUnits(_, _, _, _)
SliceUnits(units, i, room, first) ==
    IF i > Len(units) \/ room <= 0 THEN <<>>
    ELSE LET t    == units[i].text
             n    == units[i].rep
             L    == Len(t)
             k    == IF first
                     THEN (IF room < L THEN 0 ELSE 1 + Min2(n - 1, (room - L) \div (L + 1)))
                     ELSE Min2(n, room \div (L + 1))
             used == IF k = 0 THEN 0 ELSE k * (L + 1) - (IF first THEN 1 ELSE 0)
             left == room - used
             sep  == IF first /\ k = 0 THEN 0 ELSE 1
             full == IF k > 0 THEN <<[text |-> t, rep |-> k]>> ELSE <<>>
         IN  IF k = n
             THEN full \o SliceUnits(units, i + 1, left, FALSE)
             ELSE full \o (IF left - sep > 0
                           THEN <<[text |-> SubSeq(t, 1, left - sep), rep |-> 1]>>
                           ELSE <<>>)

BodyTextOf(units) == SliceUnits(units, 1, BodyTextCap, TRUE)


-----------------------------------------------------------------------------
(* The regular-expression tests of parseHTML                               *)

\* /(\+?\d[\d\s\-\.\(\)]{7,}\d)/
HasPhoneIn(t) ==
    LET PhoneChar(c) == IsDigit(c) \/ IsWs(c) \/ c \in {"-", ".", "(", ")"}
        digits       == { i \in 1..Len(t) : IsDigit(CharAt(t, i)) }
    IN  \E i \in digits : \E j \in digits :
            /\ j - i >= 8
            /\ \A m \in (i + 1)..(j - 1) : PhoneChar(CharAt(t, m))

\* /[a-zA-Z0-9._%+\-]+@[a-zA-Z0-9.\-]+\.[a-zA-Z]{2,}/
HasEmailIn(t) ==
    LET LocalChar(c)  == IsLetter(c) \/ IsDigit(c) \/ c \in {".", "_", "%", "+", "-"}
        DomainChar(c) == IsLetter(c) \/ IsDigit(c) \/ c \in {".", "-"}
        Ats           == { i \in 2..Len(t) : CharAt(t, i) = "@" }
    IN  \E i \in Ats : \E j \in (i + 2)..(Len(t) - 2) :
            /\ CharAt(t, j) = "."
            /\ LocalChar(CharAt(t, i - 1))
            /\ \A m \in (i + 1)..(j - 1) : DomainChar(CharAt(t, m))
            /\ IsLetter(CharAt(t, j + 1)) /\ IsLetter(CharAt(t, j + 2))

\* \bw\b, case-insensitive
HasWholeWord(t, w) ==
    LET lt == ToLower(t)
    IN  \E i \in 1..(Len(lt) - Len(w) + 1) :
            /\ SubSeq(lt, i, i + Len(w) - 1) = w
            /\ (i = 1 \/ ~IsWordChar(CharAt(lt, i - 1)))
            /\ (i + Len(w) > Len(lt) \/ ~IsWordChar(CharAt(lt, i + Len(w))))

AddressWords == {"street", "avenue", "boulevard", "road", "lane", "drive", "suite", "floor"}

\* /(street|avenue|boulevard|road|lane|drive|suite|floor|\d{5}|\bst\b|\bave\b|\bblvd\b)/i
HasAddressIn(t) ==
    \/ \E w \in AddressWords : Includes(ToLower(t), w)
    \/ \E i \in 1..(Len(t) - 4) : \A m \in i..(i + 4) : IsDigit(CharAt(t, m))
    \/ \E w \in {"st", "ave", "blvd"} : HasWholeWord(t, w)

SocialDomains ==
    {"linkedin.com", "twitter.com", "x.com", "facebook.com", "instagram.com", "youtube.com"}

\* /(linkedin\.com|twitter\.com|x\.com|facebook\.com|instagram\.com|youtube\.com)/i
HasSocialIn(t) == \E d \in SocialDomains : Includes(ToLower(t), d)

QuestionWords ==
    {"how", "what", "why", "when", "where", "who", "which", "can", "does", "is", "are",
     "do", "will", "should"}

\* /^(how|what|...|should)/i.test(h.trim())
IsQuestion(h) == \E q \in QuestionWords : StartsWith(ToLower(Trim(h)), q)

\* get(): m?.[1]?.trim() ?? null
GetTrim(m) == IF m.some THEN Some(Trim(m.v)) ELSE Null

\* the content attribute of the description pattern is [^"']{0,500}
GetDescription(m) == IF m.some /\ Len(m.v) <= 500 THEN Some(Trim(m.v)) ELSE Null

\* the canonical and lang patterns need a non-empty attribute value
GetNonEmpty(m) == IF m.some /\ Len(m.v) > 0 THEN Some(Trim(m.v)) ELSE Null

\* x?.length ?? 0
LengthOrZero(m) == IF m.some THEN Len(m.v) ELSE 0

\* !!x for a nullable string
Truthy(m) == m.some /\ m.v # ""

\* ogMeta[key] ?? null, where every og tag in document order overwrote ogMeta[prop]
OgValue(og, key) ==
    LET hits == { i \in 1..Len(og) : og[i].prop = key }
    IN  IF hits = {} THEN Null
        ELSE Some(og[CHOOSE i \in hits : \A j \in hits : j <= i].content)


-----------------------------------------------------------------------------
(* parseHTML (lines 85-200)                                                *)

\* the @type strings one JSON-LD block pushes (lines 146-167): nothing for a block that
\* does not parse; an item that is null throws inside the try and ends the block, the
\* types pushed before it stay
BlockTypes(block) ==
    LET RECURSIVE Items(_)
        Items(i) ==
            IF i > Len(block.items) \/ block.items[i].isNull THEN <<>>
            ELSE LET ts == block.items[i].types
                 IN  [k \in 1..Len(ts) |-> ts[k]] \o Items(i + 1)
        all  == IF block.valid THEN Items(1) ELSE <<>>
        strs == SelectSeq(all, LAMBDA t : t.isStr)
    IN  ArrayOf([k \in 1..Len(strs) |-> strs[k].v])

RECURSIVE SchemaTypesFrom(_, _)
SchemaTypesFrom(blocks, i) ==
    IF i > Len(blocks) THEN <<>> ELSE BlockTypes(blocks[i]) \o SchemaTypesFrom(blocks, i + 1)

IsLocalBizType(t) == t = "LocalBusiness" \/ EndsWith(t, "Store") \/ EndsWith(t, "Restaurant")

\* every href="..." of the document whose value does not start with '#' (line 114);
\* the canonical <link> carries an href too
HrefsOf(doc) ==
    LET all == (IF doc.canonical.some THEN <<doc.canonical.v>> ELSE <<>>) \o doc.hrefs
    IN  SelectSeq(all, LAMBDA h : Len(h) > 0 /\ CharAt(h, 1) # "#")

parseHTML(doc, pageUrl) ==
    LET parsed      == ParseURL(pageUrl)
        origin      == IF parsed.ok THEN parsed.origin ELSE ""
        title       == GetTrim(doc.title)
        description == GetDescription(doc.metaDescription)
        h1Tags      == HeadingTexts(doc, "h1")
        h2Tags      == HeadingTexts(doc, "h2")
        h3Tags      == HeadingTexts(doc, "h3")
        hrefs       == HrefsOf(doc)
        IsInternal(h) == StartsWith(h, "/") \/ Includes(h, origin)
        IsExternal(h) == ~IsInternal(h) /\ StartsWith(h, "http")
        units       == TextUnits(doc)
        types       == SchemaTypesFrom(doc.ldjson, 1)
        typeSet     == SeqToSet(types)
        rawTexts    == ArrayOf([i \in 1..Len(doc.body) |-> doc.body[i].text])
                       \o (IF doc.title.some THEN <<doc.title.v>> ELSE <<>>) \o doc.hrefs
    IN  [ title           |-> title,
          titleLength     |-> LengthOrZero(title),
          metaDescription |-> description,
          metaDescLength  |-> LengthOrZero(description),
          canonicalUrl    |-> GetNonEmpty(doc.canonical),
          language        |-> GetNonEmpty(doc.lang),
          hasViewport     |-> doc.viewport,
          robotsMeta      |-> GetTrim(doc.robotsMeta),
          h1Tags          |-> h1Tags,
          h2Tags          |-> h2Tags,
          h3Tags          |-> h3Tags,
          totalImages     |-> Len(doc.imgs),
          imagesWithAlt   |-> CountSeq(doc.imgs, Truthy),
          internalLinks   |-> CountSeq(hrefs, IsInternal),
          externalLinks   |-> CountSeq(hrefs, IsExternal),
          wordCount       |-> WordCountOf(units),
          bodyText        |-> BodyTextOf(units),
          ogTitle         |-> OgValue(doc.og, "title"),
          ogDescription   |-> OgValue(doc.og, "description"),
          ogImage         |-> OgValue(doc.og, "image"),
          ogType          |-> OgValue(doc.og, "type"),
          twitterCard     |-> GetTrim(doc.twitterCard),
          schemaTypes     |-> types,
          hasFAQSchema    |-> "FAQPage" \in typeSet,
          hasHowToSchema  |-> "HowTo" \in typeSet,
          hasOrgSchema    |-> "Organization" \in typeSet,
          hasLocalBizSchema   |-> \E t \in typeSet : IsLocalBizType(t),
          hasArticleSchema    |-> typeSet \cap {"Article", "BlogPosting", "NewsArticle"} # {},
          hasBreadcrumbSchema |-> "BreadcrumbList" \in typeSet,
          hasWebSiteSchema    |-> "WebSite" \in typeSet,
          questionH2Count |-> CountSeq(h2Tags, IsQuestion),
          hasOrderedLists   |-> \E i \in 1..Len(doc.body) : doc.body[i].tag = "ol",
          hasUnorderedLists |-> \E i \in 1..Len(doc.body) : doc.body[i].tag = "ul",
          hasPhone        |-> \E i \in 1..Len(units) : HasPhoneIn(units[i].text),
          hasAddress      |-> \E i \in 1..Len(units) : HasAddressIn(units[i].text),
          hasEmail        |-> \E i \in 1..Len(units) : HasEmailIn(units[i].text),
          hasSocialLinks  |-> \E i \in 1..Len(rawTexts) : HasSocialIn(rawTexts[i]),
          hreflang        |-> doc.hreflang,
          fetchError      |-> FALSE ]

\* the record the handler synthesises when it has no HTML (line 643)
DefaultAnalysis ==
    [ title |-> Null, titleLength |-> 0, metaDescription |-> Null, metaDescLength |-> 0,
      canonicalUrl |-> Null, language |-> Null, hasViewport |-> FALSE, robotsMeta |-> Null,
      h1Tags |-> <<>>, h2Tags |-> <<>>, h3Tags |-> <<>>,
      totalImages |-> 0, imagesWithAlt |-> 0, internalLinks |-> 0, externalLinks |-> 0,
      wordCount |-> 0, bodyText |-> <<>>,
      ogTitle |-> Null, ogDescription |-> Null, ogImage |-> Null, ogType |-> Null,
      twitterCard |-> Null, schemaTypes |-> <<>>,
      hasFAQSchema |-> FALSE, hasHowToSchema |-> FALSE, hasOrgSchema |-> FALSE,
      hasLocalBizSchema |-> FALSE, hasArticleSchema |-> FALSE, hasBreadcrumbSchema |-> FALSE,
      hasWebSiteSchema |-> FALSE, questionH2Count |-> 0,
      hasOrderedLists |-> FALSE, hasUnorderedLists |-> FALSE,
      hasPhone |-> FALSE, hasAddress |-> FALSE, hasEmail |-> FALSE, hasSocialLinks |-> FALSE,
      hreflang |-> FALSE, fetchError |-> TRUE ]


-----------------------------------------------------------------------------
(* extractKeywords (lines 204-244)                                         *)

STOP_WORDS ==
    {"the","a","an","and","or","but","in","on","at","to","for","of","with","by",
     "is","it","this","that","are","was","were","be","been","have","has","had","do","does","did",
     "will","would","could","should","may","might","can","not","no","we","you","your","our","my",
     "their","its","from","up","about","into","as","if","when","than","so","all","any","both",
     "each","more","most","other","some","such","only","own","same","too","very","just","how",
     "what","which","who","where","why","get","also","new","use","used","page","site","web","com",
     "http","https","click","here","read","view","learn","contact","home","menu","search",
     "privacy","terms","cookie","cookies","copyright","rights","reserved"}

\* text.toLowerCase().replace(/[^a-z0-9\s]/g, " ").split(/\s+/)
\*     .filter(w => w.length > 3 && !STOP_WORDS.has(w))
KeywordTokens(text) ==
    SelectSeq(SplitWs(AlnumOnly(ToLower(text))),
              LAMBDA w : Len(w) > 3 /\ w \notin STOP_WORDS)

\* freq.set(w, (freq.get(w) ?? 0) + weight); a Map keeps its keys in insertion order
FreqAdd(freq, w, weight) ==
    IF \E i \in 1..Len(freq) : freq[i].word = w
    THEN LET i == CHOOSE k \in 1..Len(freq) : freq[k].word = w
         IN  [freq EXCEPT ![i].count = @ + weight]
    ELSE Append(freq, [word |-> w, count |-> weight])

\* for (const w of words) freq.set(...): the first n of the words added to freq
RECURSIVE FreqAddAll(_, _, _, _)
FreqAddAll(freq, words, n, weight) ==
    IF n = 0 THEN freq
    ELSE With(FreqAddAll(freq, words, n - 1, weight), LAMBDA f : FreqAdd(f, words[n], weight))

\* one zone: its text is tokenized and every token adds the zone's weight
FreqAddText(freq, text, weight) ==
    With([freq |-> freq, words |-> KeywordTokens(text)],
         LAMBDA z : FreqAddAll(z.freq, z.words, Len(z.words), weight))

\* the body zone: a unit repeated rep times adds rep for each of its tokens; the first n
\* units added to freq
RECURSIVE FreqAddUnits(_, _, _, _)
FreqAddUnits(freq, units, n, weight) ==
    IF n = 0 THEN freq
    ELSE With(FreqAddUnits(freq, units, n - 1, weight),
              LAMBDA f : FreqAddText(f, units[n].text, weight * units[n].rep))

\* variant that leaves the entries in insertion order
SortByCountUnsorted(freq) == freq

\* Array.prototype.sort((a, b) => b[1] - a[1]): stable, descending by count
SortByCount(freq) ==
    With(freq, LAMBDA f :
      LET n       == Len(f)
          Rank(i) == 1 + Cardinality({ j \in 1..n : f[j].count > f[i].count })
                       + Cardinality({ j \in 1..(i - 1) : f[j].count = f[i].count })
      IN  With(ArrayOf([i \in 1..n |-> Rank(i)]), LAMBDA ranks :
            ArrayOf([k \in 1..n |-> f[CHOOSE i \in 1..n : ranks[i] = k]])))

TopKeywords == 8

Take(q, n) == SubSeq(q, 1, Min2(n, Len(q)))

OrEmpty(m) == IF m.some THEN m.v ELSE ""

extractKeywords(analysis, pageUrl) ==
    With(analysis, LAMBDA a :
      LET titleText == OrEmpty(a.title)
          h1Text    == JoinSp(a.h1Tags)
          metaText  == OrEmpty(a.metaDescription)
          h2Text    == JoinSp(Take(a.h2Tags, 8))
          f1 == FreqAddText(<<>>, titleText, 5)
          f2 == FreqAddText(f1, h1Text, 4)
          f3 == FreqAddText(f2, metaText, 3)
          f4 == FreqAddText(f3, h2Text, 2)
          f5 == FreqAddUnits(f4, a.bodyText, Len(a.bodyText), 1)
          parsed  == ParseURL(pageUrl)
          urlPath == IF parsed.ok THEN ToLower(parsed.pathname) ELSE ""
      IN  With([ sorted |-> Take(SortByCount(f5), TopKeywords), titleLower |-> ToLower(titleText),
                 h1Lower |-> ToLower(h1Text), metaLower |-> ToLower(metaText),
                 urlPath |-> urlPath ], LAMBDA v :
            ArrayOf([i \in 1..Len(v.sorted) |->
                  [ word       |-> v.sorted[i].word,
                    count      |-> v.sorted[i].count,
                    inTitle    |-> Includes(v.titleLower, v.sorted[i].word),
                    inH1       |-> Includes(v.h1Lower, v.sorted[i].word),
                    inMetaDesc |-> Includes(v.metaLower, v.sorted[i].word),
                    inURL      |-> Includes(v.urlPath, v.sorted[i].word) ]])))


-----------------------------------------------------------------------------
(* Scoring functions (lines 250-541).  A Lighthouse score s in [0,1] is    *)
(* carried as the integer h = 100 * s.  Check records keep their label and *)
(* pass flag; the human-readable detail text is not modelled.              *)

\* clamp(n, min, max)
clamp(n, lo, hi) == Max2(lo, Min2(hi, n))

\* Math.round(s * m) for s = h / 100, h >= 0 (halves round up)
RoundTimes(h, m) == (h * m + 50) \div 100

\* variant that truncates instead of rounding
PercentTruncated(points, max) == (100 * points) \div max

\* Math.round((points / max) * 100)
Percent(points, max) == (200 * points + max) \div (2 * max)

B2N(b) == IF b THEN 1 ELSE 0

Check(label, passed) == [label |-> label, passed |-> passed]

scorePerformance(perf) ==
    [ score     |-> RoundTimes(perf, 100),
      points    |-> RoundTimes(clamp(perf, 0, 100), 15),
      maxPoints |-> 15,
      checks    |-> << Check("Performance score", perf >= 70),
                       Check("Core Web Vitals tier", perf >= 75),
                       Check("Mobile-optimised speed", perf >= 60) >> ]

\* variant that gives a page without images no alt-text points
AltPointsNoneWithoutImages(html) ==
    IF html.totalImages = 0 THEN 0
    ELSE IF html.imagesWithAlt >= html.totalImages THEN 4
    ELSE IF 4 * html.imagesWithAlt >= 3 * html.totalImages THEN 3
    ELSE IF 2 * html.imagesWithAlt >= html.totalImages THEN 2
    ELSE IF html.imagesWithAlt > 0 THEN 1
    ELSE 0

\* lines 319-324
AltPoints(html) ==
    IF html.totalImages = 0 THEN 4
    ELSE IF html.imagesWithAlt >= html.totalImages THEN 4
    ELSE IF 4 * html.imagesWithAlt >= 3 * html.totalImages THEN 3
    ELSE IF 2 * html.imagesWithAlt >= html.totalImages THEN 2
    ELSE IF html.imagesWithAlt > 0 THEN 1
    ELSE 0

\* lines 296-303
UrlScore(pageUrl) ==
    LET parsed == ParseURL(pageUrl)
    IN  IF parsed.ok
        THEN B2N(~Includes(parsed.pathname, "_")) + B2N(Len(parsed.pathname) < 100)
        ELSE 0

scoreTechnicalSEO(lhSeo, html, pageUrl, siteInfo, audits) ==
    LET max          == 25
        lhPts        == RoundTimes(lhSeo, 8)
        hasTitle     == Truthy(html.title)
        goodTitleLen == html.titleLength >= 30 /\ html.titleLength <= 65
        titlePts     == B2N(hasTitle) + B2N(goodTitleLen) + B2N(hasTitle /\ html.titleLength > 10)
        hasDesc      == Truthy(html.metaDescription)
        goodDescLen  == html.metaDescLength >= 120 /\ html.metaDescLength <= 165
        descPts      == B2N(hasDesc) + B2N(goodDescLen) + B2N(hasDesc)
        urlScore     == UrlScore(pageUrl)
        crawlPts     == B2N(siteInfo.hasRobots) + 2 * B2N(siteInfo.hasSitemap)
        hasCanonical == Truthy(html.canonicalUrl)
                        \/ (IF audits.canonical.some THEN audits.canonical.v ELSE 0) >= 100
        isIndexable  == ~(html.robotsMeta.some /\ Includes(ToLower(html.robotsMeta.v), "noindex"))
        altPts       == AltPoints(html)
        pts          == lhPts + titlePts + descPts + urlScore + crawlPts
                        + B2N(hasCanonical) + B2N(isIndexable) + altPts
        finalPts     == Min2(pts, max)
    IN  [ score     |-> Percent(finalPts, max),
          points    |-> finalPts,
          maxPoints |-> max,
          checks    |-> << Check("Lighthouse SEO foundation", lhSeo >= 70),
                           Check("Title tag", hasTitle /\ goodTitleLen),
                           Check("Meta description", hasDesc /\ goodDescLen),
                           Check("URL structure", urlScore = 2),
                           Check("Robots.txt", siteInfo.hasRobots),
                           Check("XML Sitemap", siteInfo.hasSitemap),
                           Check("Canonical URL", hasCanonical),
                           Check("Image alt text", altPts >= 3) >> ]

scoreContentKeywords(html, keywords) ==
    LET max        == 20
        hasH1      == Len(html.h1Tags) > 0
        singleH1   == Len(html.h1Tags) = 1
        hasH2s     == Len(html.h2Tags) >= 2
        headingPts == 2 * B2N(hasH1) + B2N(singleH1) + B2N(hasH2s)
        covered    == IF Len(keywords) > 0
                      THEN B2N(keywords[1].inTitle) + B2N(keywords[1].inH1)
                           + B2N(keywords[1].inMetaDesc) + B2N(keywords[1].inURL)
                      ELSE 0
        kwPts      == IF Len(keywords) > 0 THEN Min2(covered * 2, 8) ELSE 0
        cov2       == IF Len(keywords) > 1
                      THEN B2N(keywords[2].inTitle) + B2N(keywords[2].inH1)
                           + B2N(keywords[2].inMetaDesc)
                      ELSE 0
        contentPts == IF html.wordCount >= 2000 THEN 4
                      ELSE IF html.wordCount >= 1000 THEN 3
                      ELSE IF html.wordCount >= 500 THEN 2
                      ELSE IF html.wordCount >= 200 THEN 1 ELSE 0
        ogComplete == B2N(Truthy(html.ogTitle)) + B2N(Truthy(html.ogDescription))
                      + B2N(Truthy(html.ogImage))
        ogPts      == IF ogComplete >= 3 THEN 4
                      ELSE IF ogComplete = 2 THEN 2
                      ELSE IF ogComplete = 1 THEN 1 ELSE 0
        pts        == headingPts + kwPts + contentPts + ogPts
        finalPts   == Min2(pts, max)
        kwChecks   == IF Len(keywords) > 0
                      THEN <<Check("Primary keyword coverage", covered >= 3)>>
                           \o (IF Len(keywords) > 1
                               THEN <<Check("Secondary keyword signals", cov2 >= 2)>>
                               ELSE <<>>)
                      ELSE <<Check("Keyword signals", FALSE)>>
    IN  [ score     |-> Percent(finalPts, max),
          points    |-> finalPts,
          maxPoints |-> max,
          checks    |-> << Check("H1 tag", hasH1 /\ singleH1),
                           Check("Heading hierarchy (H2s)", hasH2s) >>
                        \o kwChecks
                        \o << Check("Content depth", contentPts >= 2),
                              Check("Open Graph tags", ogComplete >= 3) >> ]


scoreGEO(html, pageUrl) ==
    LET max             == 20
        hasAnySchema    == Len(html.schemaTypes) > 0
        hasEntitySchema == html.hasOrgSchema \/ html.hasLocalBizSchema
        schemaVariety   == Cardinality(SeqToSet(html.schemaTypes))
        schemaPts       == (IF hasEntitySchema THEN 5 ELSE IF hasAnySchema THEN 2 ELSE 0)
                           + (IF schemaVariety >= 3 THEN 2 ELSE IF schemaVariety >= 2 THEN 1 ELSE 0)
                           + B2N(html.hasWebSiteSchema)
        napSignals      == 2 * B2N(html.hasPhone) + 2 * B2N(html.hasAddress) + B2N(html.hasEmail)
        socialPts       == 2 * B2N(html.hasSocialLinks)
                           + (IF Truthy(html.ogTitle) /\ Truthy(html.ogDescription)
                                 /\ Truthy(html.ogImage) THEN 2
                              ELSE IF Truthy(html.ogTitle) THEN 1 ELSE 0)
        clarityPts      == B2N(Truthy(html.language)) + B2N(html.wordCount >= 300)
                           + B2N(Len(html.h2Tags) >= 3)
        pts             == Min2(schemaPts, 8) + Min2(napSignals, 5) + Min2(socialPts, 4)
                           + Min2(clarityPts, 3)
        finalPts        == Min2(pts, max)
    IN  [ score     |-> Percent(finalPts, max),
          points    |-> finalPts,
          maxPoints |-> max,
          checks    |-> << Check("Entity schema (Org / LocalBusiness)", hasEntitySchema),
                           Check("Schema variety & coverage", schemaVariety >= 2),
                           Check("NAP signals (Name, Address, Phone)", napSignals >= 3),
                           Check("Social profiles & OG completeness", socialPts >= 3),
                           Check("Content clarity & extractability", clarityPts >= 2) >> ]

scoreAEO(html) ==
    LET max         == 20
        faqPts      == IF html.hasFAQSchema THEN 5 ELSE 0
        howtoPts    == IF html.hasHowToSchema THEN 3 ELSE 0
        questionPts == IF html.questionH2Count >= 4 THEN 5
                       ELSE IF html.questionH2Count >= 2 THEN 3
                       ELSE IF html.questionH2Count = 1 THEN 2 ELSE 0
        listPts     == 2 * B2N(html.hasOrderedLists) + 2 * B2N(html.hasUnorderedLists)
        supportPts  == B2N(html.hasArticleSchema) + B2N(html.hasBreadcrumbSchema)
                       + B2N(html.hasWebSiteSchema)
        pts         == Min2(faqPts + howtoPts, 7) + questionPts + Min2(listPts, 4)
                       + Min2(supportPts, 3)
        finalPts    == Min2(pts, max)
    IN  [ score     |-> Percent(finalPts, max),
          points    |-> finalPts,
          maxPoints |-> max,
          checks    |-> << Check("FAQPage schema", html.hasFAQSchema),
                           Check("HowTo schema", html.hasHowToSchema),
                           Check("Question-style headings", html.questionH2Count >= 2),
                           Check("List & structured answers (UL/OL)",
                                 html.hasOrderedLists \/ html.hasUnorderedLists),
                           Check("Supporting schema (Article, Breadcrumb)", supportPts >= 1) >> ]

scoreAccessibility(a11y, bp) ==
    LET a11yPts == RoundTimes(clamp(a11y, 0, 100), 5)
        bpPts   == RoundTimes(clamp(bp, 0, 100), 3)
        pts     == a11yPts + bpPts
    IN  [ score     |-> Percent(pts, 8),
          points    |-> pts,
          maxPoints |-> 8,
          checks    |-> << Check("Accessibility (Lighthouse)", a11y >= 70),
                           Check("Best practices (Lighthouse)", bp >= 80) >> ]

-----------------------------------------------------------------------------
(* buildRecommendations (lines 545-594).  A recommendation keeps its id,   *)
(* priority and category; the fixed title, description and fix texts are   *)
(* not modelled.                                                           *)

Rec(id, priority, category) == [id |-> id, priority |-> priority, category |-> category]

priorityOrder == [critical |-> 0, high |-> 1, medium |-> 2]

\* variant of the sort that places critical last
SortByPriorityCriticalLast(recs) ==
    LET OfRank(r) == SelectSeq(recs, LAMBDA x : priorityOrder[x.priority] = r)
    IN  OfRank(1) \o OfRank(2) \o OfRank(0)

\* variant of the sort that places medium before high
SortByPriorityMediumFirst(recs) ==
    LET OfRank(r) == SelectSeq(recs, LAMBDA x : priorityOrder[x.priority] = r)
    IN  OfRank(0) \o OfRank(2) \o OfRank(1)

\* Array.prototype.sort with a comparator on the priority rank: stable
SortByPriority(recs) ==
    LET OfRank(r) == SelectSeq(recs, LAMBDA x : priorityOrder[x.priority] = r)
    IN  OfRank(0) \o OfRank(1) \o OfRank(2)

If(cond, rec) == IF cond THEN <<rec>> ELSE <<>>

\* variant of the rules in which "https" suppresses "perf"
RuleRecsFirstCriticalOnly(perf, lhSeo, a11y, bp, html, siteInfo, keywords, pageUrl) ==
       If(~StartsWith(pageUrl, "https://"), Rec("https", "critical", "Security"))
    \o (IF perf < 50 THEN If(StartsWith(pageUrl, "https://"), Rec("perf", "critical", "Performance"))
        ELSE IF perf < 75 THEN <<Rec("perf-med", "high", "Performance")>>
        ELSE <<>>)
    \o If(Len(html.h1Tags) = 0, Rec("h1", "critical", "Content SEO"))
    \o If(~Truthy(html.metaDescription), Rec("meta-desc", "high", "Technical SEO"))
    \o If(~html.hasFAQSchema /\ ~html.hasHowToSchema, Rec("faq-schema", "high", "AEO Readiness"))
    \o If(~html.hasOrgSchema /\ ~html.hasLocalBizSchema, Rec("org-schema", "high", "GEO Readiness"))
    \o If(~siteInfo.hasSitemap, Rec("sitemap", "high", "Technical SEO"))
    \o If(Len(keywords) > 0 /\ ~keywords[1].inTitle /\ ~keywords[1].inH1,
          Rec("kw-coverage", "high", "Content SEO"))
    \o If(html.totalImages > 0 /\ 2 * html.imagesWithAlt < html.totalImages,
          Rec("alt-text", "medium", "Technical SEO"))
    \o If(lhSeo < 70,
          Rec("lh-seo", IF lhSeo < 50 THEN "critical" ELSE "high", "Technical SEO"))
    \o If(html.questionH2Count = 0 /\ ~html.hasFAQSchema, Rec("aeo-content", "medium", "AEO Readiness"))
    \o If(a11y < 70, Rec("a11y", "medium", "Accessibility"))

\* the rules in evaluation order (lines 553-589), before the sort
RuleRecs(perf, lhSeo, a11y, bp, html, siteInfo, keywords, pageUrl) ==
       If(~StartsWith(pageUrl, "https://"), Rec("https", "critical", "Security"))
    \o (IF perf < 50 THEN <<Rec("perf", "critical", "Performance")>>
        ELSE IF perf < 75 THEN <<Rec("perf-med", "high", "Performance")>>
        ELSE <<>>)
    \o If(Len(html.h1Tags) = 0, Rec("h1", "critical", "Content SEO"))
    \o If(~Truthy(html.metaDescription), Rec("meta-desc", "high", "Technical SEO"))
    \o If(~html.hasFAQSchema /\ ~html.hasHowToSchema, Rec("faq-schema", "high", "AEO Readiness"))
    \o If(~html.hasOrgSchema /\ ~html.hasLocalBizSchema, Rec("org-schema", "high", "GEO Readiness"))
    \o If(~siteInfo.hasSitemap, Rec("sitemap", "high", "Technical SEO"))
    \o If(Len(keywords) > 0 /\ ~keywords[1].inTitle /\ ~keywords[1].inH1,
          Rec("kw-coverage", "high", "Content SEO"))
    \o If(html.totalImages > 0 /\ 2 * html.imagesWithAlt < html.totalImages,
          Rec("alt-text", "medium", "Technical SEO"))
    \o If(lhSeo < 70,
          Rec("lh-seo", IF lhSeo < 50 THEN "critical" ELSE "high", "Technical SEO"))
    \o If(html.questionH2Count = 0 /\ ~html.hasFAQSchema, Rec("aeo-content", "medium", "AEO Readiness"))
    \o If(a11y < 70, Rec("a11y", "medium", "Accessibility"))

buildRecommendations(perf, lhSeo, a11y, bp, html, siteInfo, keywords, pageUrl) ==
    SortByPriority(RuleRecs(perf, lhSeo, a11y, bp, html, siteInfo, keywords, pageUrl))


-----------------------------------------------------------------------------
(* Site crawl info (lines 645-664)                                         *)

\* position after any run of whitespace starting at i
RECURSIVE SkipWs(_, _)
SkipWs(s, i) == IF i <= Len(s) /\ IsWs(CharAt(s, i)) THEN SkipWs(s, i + 1) ELSE i

StartsAt(s, i, p) == i + Len(p) - 1 <= Len(s) /\ SubSeq(s, i, i + Len(p) - 1) = p

\* /User-agent:\s*\*[\s\S]*?Disallow:\s*\/(?!\S)/i
BlocksAllCrawlers(robotsTxt) ==
    LET t == ToLower(robotsTxt)
        AgentStarEnds == { SkipWs(t, i + 11) + 1 : i \in { k \in 1..Len(t) :
                              /\ StartsAt(t, k, "user-agent:")
                              /\ StartsAt(t, SkipWs(t, k + 11), "*") } }
        DisallowRoot(j) ==
            /\ StartsAt(t, j, "disallow:")
            /\ StartsAt(t, SkipWs(t, j + 9), "/")
            /\ LET after == SkipWs(t, j + 9) + 1
               IN  after > Len(t) \/ IsWs(CharAt(t, after))
    IN  \E e \in AgentStarEnds : \E j \in e..Len(t) : DisallowRoot(j)

\* robotsTxt.match(/Sitemap:\s*(\S+)/i)?.[1] ?? null
SitemapFromRobots(robotsTxt) ==
    LET t    == ToLower(robotsTxt)
        hits == { k \in 1..Len(t) :
                    /\ StartsAt(t, k, "sitemap:")
                    /\ SkipWs(t, k + 8) <= Len(t) }
    IN  IF hits = {} THEN Null
        ELSE LET k     == CHOOSE x \in hits : \A y \in hits : x <= y
                 from  == SkipWs(robotsTxt, k + 8)
                 RECURSIVE End(_)
                 End(i) == IF i <= Len(robotsTxt) /\ ~IsWs(CharAt(robotsTxt, i))
                           THEN End(i + 1) ELSE i
             IN  Some(SubSeq(robotsTxt, from, End(from) - 1))

\* variant of a match without the g flag: one match at most
LocCountFirstOnly(sitemapXml) ==
    IF \E k \in 1..Len(sitemapXml) : StartsAt(sitemapXml, k, "<loc>") THEN 1 ELSE 0

\* sitemapXml.match(/<loc>/g)
LocCount(sitemapXml) == Cardinality({ k \in 1..Len(sitemapXml) : StartsAt(sitemapXml, k, "<loc>") })

\* variant that reports a sitemap whether or not one was fetched
SiteInfoOfAssumedSitemap(robotsTxt, sitemapXml, origin) ==
    [ hasRobots         |-> Truthy(robotsTxt),
      hasSitemap        |-> TRUE,
      blockedByCrawlers |-> IF Truthy(robotsTxt) THEN BlocksAllCrawlers(robotsTxt.v) ELSE FALSE,
      sitemapUrl        |-> Some(origin \o "/sitemap.xml"),
      pageCount         |-> IF Truthy(sitemapXml) /\ LocCount(sitemapXml.v) > 0
                            THEN Some(LocCount(sitemapXml.v)) ELSE Null ]

\* robotsTxt and sitemapXml are nullable strings (lines 646-664)
SiteInfoOf(robotsTxt, sitemapXml, origin) ==
    LET hasRobots  == Truthy(robotsTxt)
        hasSitemap == Truthy(sitemapXml)
        fromRobots == IF hasRobots THEN SitemapFromRobots(robotsTxt.v) ELSE Null
    IN  [ hasRobots         |-> hasRobots,
          hasSitemap        |-> hasSitemap,
          blockedByCrawlers |-> IF hasRobots THEN BlocksAllCrawlers(robotsTxt.v) ELSE FALSE,
          sitemapUrl        |-> IF fromRobots.some THEN fromRobots
                                ELSE IF hasSitemap THEN Some(origin \o "/sitemap.xml") ELSE Null,
          pageCount         |-> IF hasSitemap /\ LocCount(sitemapXml.v) > 0
                                THEN Some(LocCount(sitemapXml.v)) ELSE Null ]


-----------------------------------------------------------------------------
(* What the four upstream servers may answer                               *)

Str(v) == [isStr |-> TRUE, v |-> v]

Item(types) == [isNull |-> FALSE, types |-> [i \in 1..Len(types) |-> Str(types[i])]]

Block(items) == [valid |-> TRUE, items |-> items]

MalformedBlock == [valid |-> FALSE, items |-> <<>>]

El(tag, text, rep) == [tag |-> tag, text |-> text, rep |-> rep]

Og(prop, content) == [prop |-> prop, content |-> content]

RichBody ==
    << El("h1", "Website Audit Services", 1),
       El("h2", "What is a website audit", 1),
       El("h2", "How does the audit work", 1),
       El("h2", "Why audit  your site", 1),
       El("h2", "Pricing for every audit", 1),
       El("p",  "Call +61 400 123 456 or email hello@acme.io at 12 Main Street", 1),
       El("ul", "fast clear fair", 1),
       El("ol", "scan plan mend", 1),
       El("p",  "we do it all day", 400) >>

\* a page with every signal the scoring rules look for
RichDoc ==
    [ title           |-> Some(" Website Audit Services for Local Brands "),
      metaDescription |-> Some("Get a full website audit from Acme: we test speed, structure, content and schema, then send a clear plan to fix every issue."),
      canonical       |-> Some("https://example.com/audit"),
      lang            |-> Some("en"),
      viewport        |-> TRUE,
      robotsMeta      |-> Some("index, follow"),
      body            |-> RichBody,
      imgs            |-> <<Some("Acme logo"), Some("The team")>>,
      hrefs           |-> <<"/pricing", "https://linkedin.com/company/acme", "#top", "https://other.org/">>,
      og              |-> <<Og("title", "Website Audit"), Og("description", "Audit your site"),
                            Og("image", "https://example.com/og.png"), Og("type", "website")>>,
      twitterCard     |-> Some("summary"),
      ldjson          |-> << Block(<<Item(<<"Organization">>), Item(<<"WebSite">>)>>),
                             Block(<<Item(<<"FAQPage", "HowTo">>)>>),
                             Block(<<Item(<<"Article">>), Item(<<"BreadcrumbList">>)>>) >>,
      hreflang        |-> TRUE ]

\* a page with markup and nothing the rules look for
BareDoc ==
    [ title |-> Null, metaDescription |-> Null, canonical |-> Null, lang |-> Null,
      viewport |-> FALSE, robotsMeta |-> Null, body |-> <<>>, imgs |-> <<>>, hrefs |-> <<>>,
      og |-> <<>>, twitterCard |-> Null, ldjson |-> <<>>, hreflang |-> FALSE ]

\* RichDoc and BareDoc with one group of signals changed at a time
Docs ==
    { RichDoc, BareDoc,
      [RichDoc EXCEPT !.title = Null],
      [RichDoc EXCEPT !.title = Some("Audit")],
      [RichDoc EXCEPT !.title = Some("Website Audit Services for Local Brands and Every Growing Online Shop Today")],
      [RichDoc EXCEPT !.metaDescription = Null],
      [RichDoc EXCEPT !.metaDescription = Some("A short audit pitch.")],
      [RichDoc EXCEPT !.canonical = Null, !.lang = Null, !.viewport = FALSE,
                      !.robotsMeta = Some("NOINDEX, nofollow"), !.og = <<Og("image", "")>>,
                      !.twitterCard = Null, !.hreflang = FALSE],
      [RichDoc EXCEPT !.imgs = <<>>],
      [RichDoc EXCEPT !.imgs = <<Null, Some(""), Null, Some("Acme logo")>>],
      [RichDoc EXCEPT !.imgs = <<Null, Some("The team"), Null, Some("Acme logo")>>],
      [RichDoc EXCEPT !.ldjson = <<>>],
      [RichDoc EXCEPT !.ldjson = <<Block(<<Item(<<"Organization">>)>>), MalformedBlock,
                                   Block(<<Item(<<"FAQPage">>)>>)>>],
      [RichDoc EXCEPT !.ldjson = <<MalformedBlock,
                                   Block(<<Item(<<"GroceryStore">>), [isNull |-> TRUE, types |-> <<>>],
                                           Item(<<"HowTo">>)>>)>>],
      [RichDoc EXCEPT !.ldjson = <<Block(<<Item(<<"Product">>),
                                           [isNull |-> FALSE, types |-> <<[isStr |-> FALSE, v |-> ""]>>]>>)>>],
      [RichDoc EXCEPT !.body = SubSeq(RichBody, 2, 9)],
      [RichDoc EXCEPT !.body = <<RichBody[1], El("h2", "Our audit plans", 1), RichBody[7]>>],
      [RichDoc EXCEPT !.body = SubSeq(RichBody, 1, 8) \o <<El("p", "lorem ipsum dolor", 300)>>],
      [BareDoc EXCEPT !.title = Some("Website Audit Services for Local Brands")],
      [BareDoc EXCEPT !.body = <<El("p", "Modern kitchens and bathrooms", 120), El("ol", "one two", 1)>>] }

\* the text of an HTML response: the empty string, or a document
HtmlTexts == {[isEmpty |-> TRUE]} \cup { [isEmpty |-> FALSE, doc |-> d] : d \in Docs }

NetFailures == {"error", "timeout"}

HtmlAnswers ==
    { [net |-> "timeout"] }
    \cup { [net |-> "ok", httpOk |-> TRUE, text |-> t] : t \in HtmlTexts }
    \cup { [net |-> "ok", httpOk |-> FALSE, text |-> [isEmpty |-> FALSE, doc |-> RichDoc]] }

RobotsTexts ==
    { "", "User-agent: *\nDisallow:\nSitemap: https://example.com/map.xml\n",
      "User-agent: *\nDisallow: /\n",
      "User-agent: *\nDisallow:\n\nUser-agent: BadBot\nDisallow: /\n" }

RobotsAnswers ==
    { [net |-> "error"] }
    \cup { [net |-> "ok", httpOk |-> TRUE, text |-> t] : t \in RobotsTexts }
    \cup { [net |-> "ok", httpOk |-> FALSE, text |-> "User-agent: *\nDisallow:\n"] }

SitemapTexts ==
    { "<urlset></urlset>",
      "<urlset><url><loc>https://example.com/</loc></url><url><loc>https://example.com/audit</loc></url></urlset>" }

SitemapAnswers ==
    { [net |-> "timeout"] }
    \cup { [net |-> "ok", httpOk |-> TRUE, text |-> t] : t \in SitemapTexts }
    \cup { [net |-> "ok", httpOk |-> FALSE,
            text |-> "<urlset><url><loc>https://example.com/</loc></url></urlset>"] }


\* Lighthouse category scores (hundredths); Null is a missing category or a null score
Cats(perf, seo, a11y, bp) ==
    [performance |-> perf, seo |-> seo, accessibility |-> a11y, bestPractices |-> bp]

CategoryScores ==
    { Cats(Some(0), Some(0), Some(0), Some(0)),
      Cats(Some(49), Some(49), Some(69), Some(79)),
      Cats(Some(50), Some(50), Some(70), Some(80)),
      Cats(Some(74), Some(69), Some(69), Some(100)),
      Cats(Some(75), Some(70), Some(100), Some(0)),
      Cats(Some(90), Some(80), Some(70), Some(90)),
      Cats(Some(100), Some(100), Some(100), Some(100)),
      Cats(Null, Null, Null, Null) }

NoCats == Cats(Null, Null, Null, Null)

PsiBody(isNull, code, lh, hasCats, cats, canonical) ==
    [ isNull |-> isNull, errorCode |-> code, hasLighthouse |-> lh, hasCategories |-> hasCats,
      cats |-> cats, audits |-> [canonical |-> canonical] ]

\* the JSON bodies PageSpeed may send: null, an error object, a result (with or without an
\* error member), a lighthouseResult that carries no categories
PsiBodies ==
    { PsiBody(TRUE, 0, FALSE, FALSE, NoCats, Null),
      PsiBody(FALSE, 0, FALSE, FALSE, NoCats, Null),
      PsiBody(FALSE, 429, FALSE, FALSE, NoCats, Null),
      PsiBody(FALSE, 500, FALSE, FALSE, NoCats, Null),
      PsiBody(FALSE, 0, TRUE, FALSE, NoCats, Null),
      PsiBody(FALSE, 429, TRUE, TRUE, Cats(Some(90), Some(80), Some(70), Some(90)), Null),
      PsiBody(FALSE, 0, TRUE, TRUE, Cats(Some(90), Some(80), Some(70), Some(90)), Some(100)) }
    \cup { PsiBody(FALSE, 0, TRUE, TRUE, c, Null) : c \in CategoryScores }

PsiAnswers ==
    { [net |-> f, json |-> FALSE] : f \in NetFailures }
    \cup { [net |-> "ok", json |-> FALSE] }
    \cup { [net |-> "ok", json |-> TRUE, body |-> b] : b \in PsiBodies }

\* the URLs a request can be audited under
PageUrls == { NormalizeUrl(r) : r \in { x \in RawUrlStrings : ParseURL(NormalizeUrl(x)).ok } }

\* parseHTML and extractKeywords are pure: their results for the documents and URLs above,
\* computed once
ParsedPages ==
    { [url |-> u, doc |-> d, analysis |-> parseHTML(d, u)] : u \in PageUrls, d \in Docs }

KeywordedPages ==
    { [url |-> p.url, analysis |-> p.analysis, keywords |-> extractKeywords(p.analysis, p.url)] :
        p \in ParsedPages \cup { [url |-> u, analysis |-> DefaultAnalysis] : u \in PageUrls } }

ParsedPage(doc, pageUrl) ==
    (CHOOSE p \in ParsedPages : p.url = pageUrl /\ p.doc = doc).analysis

KeywordsOfPage(analysis, pageUrl) ==
    (CHOOSE p \in KeywordedPages : p.url = pageUrl /\ p.analysis = analysis).keywords


-----------------------------------------------------------------------------
(* The synchronous tail of the handler, after Promise.allSettled           *)
(* (lines 629-735)                                                         *)

\* variant in which a failed PageSpeed fetch fulfils with an empty object
PsiPromiseNeverRejects(ans) ==
    IF ans.net = "ok" /\ ans.json
    THEN [status |-> "fulfilled", value |-> ans.body]
    ELSE [status |-> "fulfilled", value |-> PsiBody(FALSE, 0, FALSE, FALSE, NoCats, Null)]

\* the four promises of line 622-627, from what the network delivered
\* fetch(PSI_URL).then(r => r.json()): rejects on a network error, a timeout or a body
\* that is not JSON; the HTTP status is not looked at
PsiPromise(ans) ==
    IF ans.net = "ok" /\ ans.json
    THEN [status |-> "fulfilled", value |-> ans.body] ELSE [status |-> "rejected"]

\* variant in which a failed page fetch fulfils with an empty page
HtmlPromiseNeverRejects(ans) ==
    IF ans.net = "ok"
    THEN [status |-> "fulfilled", value |-> ans.text]
    ELSE [status |-> "fulfilled", value |-> [isEmpty |-> FALSE, doc |-> BareDoc]]

\* fetch(url).then(r => r.text()): the HTTP status is not looked at
HtmlPromise(ans) ==
    IF ans.net = "ok"
    THEN [status |-> "fulfilled", value |-> ans.text] ELSE [status |-> "rejected"]

\* fetch(...).then(r => r.ok ? r.text() : null)
TextPromise(ans) ==
    IF ans.net = "ok"
    THEN [status |-> "fulfilled", value |-> IF ans.httpOk THEN Some(ans.text) ELSE Null]
    ELSE [status |-> "rejected"]

\* x?.score ?? 0
ScoreOrZero(m) == IF m.some THEN m.v ELSE 0

\* Array.from(new Set(xs)): first occurrences, in order
RECURSIVE Dedup(_)
Dedup(xs) ==
    IF Len(xs) = 0 THEN <<>>
    ELSE LET init == Dedup(SubSeq(xs, 1, Len(xs) - 1))
             last == xs[Len(xs)]
         IN  IF last \in SeqToSet(init) THEN init ELSE Append(init, last)

\* lines 720-722
CoverageScore(keywords) ==
    IF Len(keywords) = 0 THEN 0
    ELSE LET n    == Min2(Len(keywords), 5)
             hits == SeqSum([i \in 1..n |->
                        B2N(keywords[i].inTitle) + B2N(keywords[i].inH1)
                        + B2N(keywords[i].inMetaDesc) + B2N(keywords[i].inURL)])
         IN  (200 * hits + 4 * n) \div (8 * n)

\* variant of the total that leaves the accessibility pillar out
TotalWithoutAccessibility(pillars) ==
    pillars.performance.points + pillars.technicalSeo.points + pillars.contentKeywords.points
    + pillars.geoReadiness.points + pillars.aeoReadiness.points

\* line 685-686
Total(pillars) ==
    pillars.performance.points + pillars.technicalSeo.points + pillars.contentKeywords.points
    + pillars.geoReadiness.points + pillars.aeoReadiness.points + pillars.accessibility.points

DisplayedRecs == 8

\* variant that gates after the recommendations sent
GateAfterDisplayed == DisplayedRecs

\* line 725
GateAfter == 3

NoWork == [steps |-> {}, recommendations |-> <<>>]

\* lines 639-726: the path taken once lighthouseResult is known to be present
AuditResult(pageUrl, body, htmlR, robotsR, sitemapR) ==
    With([ parses    |-> htmlR.status = "fulfilled" /\ ~htmlR.value.isEmpty,
           robotsTxt |-> IF robotsR.status = "fulfilled" THEN robotsR.value ELSE Null,
           sitemap   |-> IF sitemapR.status = "fulfilled" THEN sitemapR.value ELSE Null,
           parsed    |-> ParseURL(pageUrl) ], LAMBDA in :
    With([ analysis  |-> IF in.parses THEN ParsedPage(htmlR.value.doc, pageUrl)
                         ELSE DefaultAnalysis,
           siteInfo  |-> SiteInfoOf(in.robotsTxt, in.sitemap, in.parsed.origin),
           parseStep |-> IF in.parses THEN {"parseHTML"} ELSE {} ], LAMBDA page :
      IF ~body.hasCategories
      THEN \* cats is undefined: cats.performance throws a TypeError (line 669)
           [ response |-> ErrorResponse(500, MsgUnexpected),
             work     |-> [steps |-> page.parseStep, recommendations |-> <<>>,
                           analysis |-> page.analysis, siteInfo |-> page.siteInfo] ]
      ELSE
    With([ perf     |-> ScoreOrZero(body.cats.performance),
           a11y     |-> ScoreOrZero(body.cats.accessibility),
           bp       |-> ScoreOrZero(body.cats.bestPractices),
           lhSeo    |-> ScoreOrZero(body.cats.seo),
           keywords |-> KeywordsOfPage(page.analysis, pageUrl) ], LAMBDA psi :
    With([ pillars |->
             [ performance     |-> scorePerformance(psi.perf),
               technicalSeo    |-> scoreTechnicalSEO(psi.lhSeo, page.analysis, pageUrl,
                                                     page.siteInfo, body.audits),
               contentKeywords |-> scoreContentKeywords(page.analysis, psi.keywords),
               geoReadiness    |-> scoreGEO(page.analysis, pageUrl),
               aeoReadiness    |-> scoreAEO(page.analysis),
               accessibility   |-> scoreAccessibility(psi.a11y, psi.bp) ],
           recs |-> buildRecommendations(psi.perf, psi.lhSeo, psi.a11y, psi.bp, page.analysis,
                                         page.siteInfo, psi.keywords, pageUrl) ], LAMBDA out :
      [ response |->
          [ status |-> 200,
            score  |-> Total(out.pillars),
            url    |-> pageUrl,
            health |-> [ domain            |-> in.parsed.hostname,
                         isHTTPS           |-> StartsWith(pageUrl, "https://"),
                         pageCount         |-> page.siteInfo.pageCount,
                         hasRobots         |-> page.siteInfo.hasRobots,
                         hasSitemap        |-> page.siteInfo.hasSitemap,
                         blockedByCrawlers |-> page.siteInfo.blockedByCrawlers,
                         criticalIssues    |-> CountSeq(out.recs, LAMBDA r : r.priority = "critical"),
                         highIssues        |-> CountSeq(out.recs, LAMBDA r : r.priority = "high"),
                         totalIssues       |-> Len(out.recs),
                         schemaTypesFound  |-> Dedup(page.analysis.schemaTypes),
                         htmlFetchError    |-> page.analysis.fetchError ],
            pillars  |-> out.pillars,
            keywords |-> [top |-> psi.keywords, coverageScore |-> CoverageScore(psi.keywords)],
            recommendations |-> Take(out.recs, DisplayedRecs),
            gatedRecsCount  |-> Max2(0, Len(out.recs) - GateAfter) ],
        work |-> [ steps |-> page.parseStep \cup {"extractKeywords", "scorePillars",
                                                  "buildRecommendations"},
                   recommendations |-> out.recs,
                   analysis |-> page.analysis, siteInfo |-> page.siteInfo ] ]))))

\* lines 629-637, then AuditResult; a TypeError is caught at line 728 and answered 500
HandlerTail(pageUrl, psiR, htmlR, robotsR, sitemapR) ==
    IF psiR.status = "rejected"
    THEN [response |-> ErrorResponse(504, MsgPsiFailed), work |-> NoWork]
    ELSE IF psiR.value.isNull
    THEN \* psiData is null: psiData.error throws a TypeError (line 634)
         [response |-> ErrorResponse(500, MsgUnexpected), work |-> NoWork]
    ELSE IF psiR.value.errorCode = 429
    THEN [response |-> ErrorResponse(429, MsgRateLimit), work |-> NoWork]
    ELSE IF ~psiR.value.hasLighthouse
    THEN [response |-> ErrorResponse(400, MsgNoResult), work |-> NoWork]
    ELSE AuditResult(pageUrl, psiR.value, htmlR, robotsR, sitemapR)


-----------------------------------------------------------------------------
(* The request handler as a state machine                                  *)

Unissued == [st |-> "none"]

\* lines 612-627: where each of the four fetches is sent; the PageSpeed target is the
\* parameter list handed to URLSearchParams
FetchTarget(e, pageUrl) ==
    CASE e = "psi"     -> [api |-> "runPagespeed", url |-> pageUrl, strategy |-> "mobile"]
      [] e = "html"    -> pageUrl
      [] e = "robots"  -> ParseURL(pageUrl).origin \o "/robots.txt"
      [] e = "sitemap" -> ParseURL(pageUrl).origin \o "/sitemap.xml"

Pending(e, pageUrl) == [st |-> "pending", target |-> FetchTarget(e, pageUrl)]

Init ==
    /\ pc = "idle"
    /\ reqBody = [json |-> FALSE, isNull |-> FALSE, urlType |-> "undefined", urlStr |-> ""]
    /\ url = ""
    /\ issued = [e \in Endpoints |-> 0]
    /\ upstream = [e \in Endpoints |-> Unissued]
    /\ response = NoResponse
    /\ work = NoWork

\* variant of the handler head that issues the fetches before validating
ReceiveFetchFirst(body) ==
    /\ pc = "idle"
    /\ reqBody' = body
    /\ work' = NoWork
    /\ issued' = [e \in Endpoints |-> issued[e] + 1]
    /\ IF ~body.json
       THEN /\ response' = ErrorResponse(500, MsgUnexpected)
            /\ pc' = "done"
            /\ UNCHANGED <<url, upstream>>
       ELSE IF body.isNull \/ RawUrlRejected(body)
       THEN /\ response' = ErrorResponse(400, MsgNoUrl)
            /\ pc' = "done"
            /\ UNCHANGED <<url, upstream>>
       ELSE IF ~ParseURL(NormalizeUrl(body.urlStr)).ok
       THEN /\ response' = ErrorResponse(400, MsgBadUrl)
            /\ pc' = "done"
            /\ url' = NormalizeUrl(body.urlStr)
            /\ UNCHANGED upstream
       ELSE /\ url' = NormalizeUrl(body.urlStr)
            /\ upstream' = [e \in Endpoints |-> Pending(e, NormalizeUrl(body.urlStr))]
            /\ pc' = "awaiting"
            /\ UNCHANGED response

\* lines 598-627: read the body, validate the url, issue the four fetches
Receive(body) ==
    /\ pc = "idle"
    /\ reqBody' = body
    /\ work' = NoWork
    /\ IF ~body.json
       THEN \* req.json() throws; caught at line 728
            /\ response' = ErrorResponse(500, MsgUnexpected)
            /\ pc' = "done"
            /\ UNCHANGED <<url, issued, upstream>>
       ELSE IF body.isNull \/ RawUrlRejected(body)
       THEN /\ response' = ErrorResponse(400, MsgNoUrl)
            /\ pc' = "done"
            /\ UNCHANGED <<url, issued, upstream>>
       ELSE IF ~ParseURL(NormalizeUrl(body.urlStr)).ok
       THEN /\ response' = ErrorResponse(400, MsgBadUrl)
            /\ pc' = "done"
            /\ url' = NormalizeUrl(body.urlStr)
            /\ UNCHANGED <<issued, upstream>>
       ELSE /\ url' = NormalizeUrl(body.urlStr)
            /\ issued' = [e \in Endpoints |-> issued[e] + 1]
            /\ upstream' = [e \in Endpoints |-> Pending(e, NormalizeUrl(body.urlStr))]
            /\ pc' = "awaiting"
            /\ UNCHANGED response

\* variant that issues a fetch a second time when it failed on the network
SettleRetrying(e, ans) ==
    /\ pc = "awaiting"
    /\ upstream[e].st = "pending"
    /\ IF ans.net # "ok" /\ issued[e] < 2
       THEN /\ issued' = [issued EXCEPT ![e] = @ + 1]
            /\ UNCHANGED upstream
       ELSE /\ upstream' = [upstream EXCEPT ![e] =
                              [st |-> "settled", target |-> @.target, ans |-> ans]]
            /\ UNCHANGED issued
    /\ UNCHANGED <<pc, reqBody, url, response, work>>

\* one of the four fetches settles with what its server answered
Settle(e, ans) ==
    /\ pc = "awaiting"
    /\ upstream[e].st = "pending"
    /\ upstream' = [upstream EXCEPT ![e] = [st |-> "settled", target |-> @.target, ans |-> ans]]
    /\ UNCHANGED <<pc, reqBody, url, issued, response, work>>

SettlePsi == \E ans \in PsiAnswers : Settle("psi", ans)

SettleHtml == \E ans \in HtmlAnswers : Settle("html", ans)

SettleRobots == \E ans \in RobotsAnswers : Settle("robots", ans)

SettleSitemap == \E ans \in SitemapAnswers : Settle("sitemap", ans)

AllSettled == \A e \in Endpoints : upstream[e].st = "settled"

\* variant that answers 504 as soon as the PageSpeed fetch has failed
RespondOnPsiFailure ==
    /\ pc = "awaiting"
    /\ \/ AllSettled
       \/ upstream["psi"].st = "settled" /\ PsiPromise(upstream["psi"].ans).status = "rejected"
    /\ IF AllSettled
       THEN \E out \in { HandlerTail(url, PsiPromise(upstream["psi"].ans),
                                     HtmlPromise(upstream["html"].ans),
                                     TextPromise(upstream["robots"].ans),
                                     TextPromise(upstream["sitemap"].ans)) } :
               /\ response' = out.response
               /\ work' = out.work
       ELSE /\ response' = ErrorResponse(504, MsgPsiFailed)
            /\ work' = NoWork
    /\ pc' = "done"
    /\ UNCHANGED <<reqBody, url, issued, upstream>>

\* Promise.allSettled resolves; lines 629-735 run to the response
Respond ==
    /\ pc = "awaiting"
    /\ AllSettled
    /\ \E out \in { HandlerTail(url, PsiPromise(upstream["psi"].ans),
                                  HtmlPromise(upstream["html"].ans),
                                  TextPromise(upstream["robots"].ans),
                                  TextPromise(upstream["sitemap"].ans)) } :
          /\ response' = out.response
          /\ work' = out.work
    /\ pc' = "done"
    /\ UNCHANGED <<reqBody, url, issued, upstream>>

\* the response has been sent; nothing of the request is kept
Finish ==
    /\ pc = "done"
    /\ pc' = "idle"
    /\ reqBody' = [json |-> FALSE, isNull |-> FALSE, urlType |-> "undefined", urlStr |-> ""]
    /\ url' = ""
    /\ issued' = [e \in Endpoints |-> 0]
    /\ upstream' = [e \in Endpoints |-> Unissued]
    /\ response' = NoResponse
    /\ work' = NoWork

Next ==
    \/ \E body \in RequestBodies : Receive(body)
    \/ SettlePsi
    \/ SettleHtml
    \/ SettleRobots
    \/ SettleSitemap
    \/ Respond
    \/ Finish

Spec == Init /\ [][Next]_vars


-----------------------------------------------------------------------------
(* Properties of the six-pillar handler                                    *)

\* the request has been answered after all four fetches settled
Audited == pc = "done" /\ AllSettled

PsiAns == upstream["psi"].ans

HtmlAns == upstream["html"].ans

RobotsAns == upstream["robots"].ans

SitemapAns == upstream["sitemap"].ans

\* the PageSpeed promise fulfilled (the fetch succeeded and the body was JSON)
PsiFulfilled == Audited /\ PsiAns.net = "ok" /\ PsiAns.json

\* PageSpeed sent a lighthouseResult with its categories, and no error code 429
PsiUsable ==
    /\ PsiFulfilled
    /\ ~PsiAns.body.isNull
    /\ PsiAns.body.errorCode # 429
    /\ PsiAns.body.hasLighthouse
    /\ PsiAns.body.hasCategories

\* the url member of the request body is missing, not a string, empty or not a URL
BadUrlRequest ==
    /\ pc # "idle"
    /\ reqBody.json
    /\ \/ reqBody.isNull
       \/ reqBody.urlType # "string"
       \/ reqBody.urlStr \in {"", "  ", "exa mple.com", "https://", "http://exa mple.com"}

\* C1: a request whose url is missing, not a string, empty or unparseable is answered 400
\* with a non-empty error message, and none of the four fetches is issued for it
C1_BadUrlIs400WithoutFetch ==
    BadUrlRequest =>
        /\ pc = "done"
        /\ response.status = 400
        /\ Len(response.error) > 0
        /\ \A e \in Endpoints : issued[e] = 0 /\ upstream[e] = Unissued

C1_Witness ==
    /\ BadUrlRequest
    /\ pc = "done"
    /\ reqBody.urlType = "string"
    /\ reqBody.urlStr = "http://exa mple.com"
    /\ response.status = 400

\* C2: when the PageSpeed fetch rejects or times out the response is 504 with an error,
\* whatever the other three fetches delivered, and nothing is parsed, extracted, scored or
\* recommended; the response has no score
C2_PsiFailureIs504WithoutWork ==
    (Audited /\ ~PsiFulfilled) =>
        /\ response.status = 504
        /\ Len(response.error) > 0
        /\ "score" \notin DOMAIN response
        /\ work.steps = {}
        /\ work.recommendations = <<>>

C2_Witness ==
    /\ Audited
    /\ PsiAns.net = "timeout"
    /\ HtmlAns.net = "ok" /\ HtmlAns.httpOk /\ ~HtmlAns.text.isEmpty
    /\ RobotsAns.net = "ok" /\ RobotsAns.httpOk
    /\ SitemapAns.net = "ok" /\ SitemapAns.httpOk
    /\ response.status = 504

\* C3: when the PageSpeed fetch fulfils, error code 429 gives 429, otherwise a body without
\* a usable lighthouseResult gives 400, and a 200 with a score needs a lighthouseResult and
\* an error code other than 429
C3_PsiAnswerMapping ==
    PsiFulfilled =>
        /\ (~PsiAns.body.isNull /\ PsiAns.body.errorCode = 429) => response.status = 429
        /\ (PsiAns.body.isNull \/ (PsiAns.body.errorCode # 429 /\ ~PsiAns.body.hasLighthouse))
              => response.status = 400
        /\ response.status = 200 =>
              /\ "score" \in DOMAIN response
              /\ PsiAns.body.hasLighthouse
              /\ PsiAns.body.errorCode # 429

\* C4: with a usable PageSpeed result, a failed robots.txt fetch and a failed sitemap.xml
\* fetch, the response is 200 and reports hasRobots false, hasSitemap false, pageCount null
C4_AuxiliaryFailuresStill200 ==
    (PsiUsable /\ RobotsAns.net # "ok" /\ SitemapAns.net # "ok") =>
        /\ response.status = 200
        /\ response.health.hasRobots = FALSE
        /\ response.health.hasSitemap = FALSE
        /\ response.health.pageCount = Null

C4_Witness ==
    /\ PsiUsable
    /\ RobotsAns.net # "ok"
    /\ SitemapAns.net # "ok"
    /\ HtmlAns.net = "ok"
    /\ response.status = 200
    /\ ~response.health.hasSitemap

NullableFields ==
    {"title", "metaDescription", "canonicalUrl", "language", "robotsMeta", "ogTitle",
     "ogDescription", "ogImage", "ogType", "twitterCard"}

ListFields == {"h1Tags", "h2Tags", "h3Tags", "schemaTypes", "bodyText"}

CountFields ==
    {"titleLength", "metaDescLength", "totalImages", "imagesWithAlt", "internalLinks",
     "externalLinks", "wordCount", "questionH2Count"}

FlagFields ==
    {"hasViewport", "hasFAQSchema", "hasHowToSchema", "hasOrgSchema", "hasLocalBizSchema",
     "hasArticleSchema", "hasBreadcrumbSchema", "hasWebSiteSchema", "hasOrderedLists",
     "hasUnorderedLists", "hasPhone", "hasAddress", "hasEmail", "hasSocialLinks", "hreflang"}

SignalFields == NullableFields \cup ListFields \cup CountFields \cup FlagFields \cup {"fetchError"}

\* C5: when the page fetch fails and PageSpeed succeeded, parseHTML is not run, the scored
\* record is all null / empty / 0 / false with fetchError true, and the response is 200 with
\* htmlFetchError true; whenever parseHTML is run the record has every field and
\* fetchError false
C5_HtmlFailureGivesDefaultRecord ==
    /\ (PsiUsable /\ HtmlAns.net # "ok") =>
          /\ "parseHTML" \notin work.steps
          /\ DOMAIN work.analysis = SignalFields
          /\ \A f \in NullableFields : work.analysis[f] = Null
          /\ \A f \in ListFields : work.analysis[f] = <<>>
          /\ \A f \in CountFields : work.analysis[f] = 0
          /\ \A f \in FlagFields : work.analysis[f] = FALSE
          /\ work.analysis.fetchError = TRUE
          /\ "scorePillars" \in work.steps
          /\ response.status = 200
          /\ response.health.htmlFetchError = TRUE
    /\ (pc = "done" /\ "parseHTML" \in work.steps) =>
          /\ DOMAIN work.analysis = SignalFields
          /\ work.analysis.fetchError = FALSE

C5_Witness ==
    /\ PsiUsable
    /\ HtmlAns.net # "ok"
    /\ response.status = 200
    /\ response.health.htmlFetchError

\* C6: for the page, robots.txt and sitemap.xml fetches a non-2xx response is treated like a
\* failed fetch (default record with fetchError true; hasRobots false; hasSitemap false and
\* pageCount null) and the request does not fail
C6_Non2xxIsAbsent ==
    PsiUsable =>
        /\ (HtmlAns.net = "ok" /\ ~HtmlAns.httpOk) =>
              /\ response.status = 200
              /\ work.analysis = DefaultAnalysis
              /\ response.health.htmlFetchError = TRUE
        /\ (RobotsAns.net = "ok" /\ ~RobotsAns.httpOk) =>
              /\ response.status = 200
              /\ response.health.hasRobots = FALSE
        /\ (SitemapAns.net = "ok" /\ ~SitemapAns.httpOk) =>
              /\ response.status = 200
              /\ response.health.hasSitemap = FALSE
              /\ response.health.pageCount = Null

PillarNames ==
    {"performance", "technicalSeo", "contentKeywords", "geoReadiness", "aeoReadiness",
     "accessibility"}

\* C7: in every 200 response the score is the sum of the six pillars' points and every
\* pillar has 0 <= points <= maxPoints
C7_ScoreIsSumOfBoundedPoints ==
    (pc = "done" /\ response.status = 200) =>
        /\ DOMAIN response.pillars = PillarNames
        /\ response.score =
              response.pillars.performance.points + response.pillars.technicalSeo.points
              + response.pillars.contentKeywords.points + response.pillars.geoReadiness.points
              + response.pillars.aeoReadiness.points + response.pillars.accessibility.points
        /\ \A p \in PillarNames :
              /\ 0 <= response.pillars[p].points
              /\ response.pillars[p].points <= response.pillars[p].maxPoints

C7_Witness ==
    /\ pc = "done"
    /\ response.status = 200
    /\ response.score > 0
    /\ response.pillars.accessibility.points > 0
    /\ response.pillars.performance.points = response.pillars.performance.maxPoints
    /\ response.pillars.geoReadiness.points = 0

\* C8: the maxPoints of the six pillars sum to exactly 100, so the score of every 200
\* response lies between 0 and 100
C8_MaxPointsSumTo100 ==
    (pc = "done" /\ response.status = 200) =>
        /\ response.pillars.performance.maxPoints + response.pillars.technicalSeo.maxPoints
           + response.pillars.contentKeywords.maxPoints + response.pillars.geoReadiness.maxPoints
           + response.pillars.aeoReadiness.maxPoints + response.pillars.accessibility.maxPoints
           = 100
        /\ response.score \in 0..100


\* the recommendation ids in rule-evaluation order; "perf" and "perf-med" are the two
\* branches of one rule
RuleSlots ==
    << {"https"}, {"perf", "perf-med"}, {"h1"}, {"meta-desc"}, {"faq-schema"}, {"org-schema"},
       {"sitemap"}, {"kw-coverage"}, {"alt-text"}, {"lh-seo"}, {"aeo-content"}, {"a11y"} >>

RuleIds == UNION { RuleSlots[k] : k \in 1..Len(RuleSlots) }

RulePos(id) == CHOOSE k \in 1..Len(RuleSlots) : id \in RuleSlots[k]

PriorityRank(p) == CASE p = "critical" -> 0 [] p = "high" -> 1 [] p = "medium" -> 2

\* the request ran buildRecommendations
Recommended == pc = "done" /\ "buildRecommendations" \in work.steps

\* C9: the list buildRecommendations returns has every critical before every high and
\* every high before every medium, and recommendations of equal priority are in
\* rule-evaluation order
C9_SortedByPriorityThenRuleOrder ==
    Recommended =>
        \A i, j \in 1..Len(work.recommendations) :
            i < j =>
                LET a == work.recommendations[i]
                    b == work.recommendations[j]
                IN  \/ PriorityRank(a.priority) < PriorityRank(b.priority)
                    \/ /\ PriorityRank(a.priority) = PriorityRank(b.priority)
                       /\ RulePos(a.id) < RulePos(b.id)

C9_Witness ==
    /\ Recommended
    /\ { work.recommendations[i].priority : i \in 1..Len(work.recommendations) }
          = {"critical", "high", "medium"}
    /\ \E i, j \in 1..Len(work.recommendations) :
          /\ i < j
          /\ RulePos(work.recommendations[i].id) > RulePos(work.recommendations[j].id)
    /\ \E i \in 1..(Len(work.recommendations) - 1) :
          /\ work.recommendations[i].priority = "medium"
          /\ work.recommendations[i + 1].priority = "medium"

\* a Lighthouse category score as the handler reads it: cats.x?.score ?? 0
CatScore(name) ==
    LET m == PsiAns.body.cats[name] IN IF m.some THEN m.v ELSE 0

\* the condition of the rule that pushes the recommendation id (lines 553-589)
RuleHolds(id) ==
    LET html == work.analysis
        kw   == response.keywords.top
    IN  CASE id = "https"       -> SubSeq(url, 1, 8) # "https://"
          [] id = "perf"        -> CatScore("performance") < 50
          [] id = "perf-med"    -> CatScore("performance") >= 50 /\ CatScore("performance") < 75
          [] id = "h1"          -> html.h1Tags = <<>>
          [] id = "meta-desc"   -> html.metaDescription = Null \/ html.metaDescription.v = ""
          [] id = "faq-schema"  -> ~html.hasFAQSchema /\ ~html.hasHowToSchema
          [] id = "org-schema"  -> ~html.hasOrgSchema /\ ~html.hasLocalBizSchema
          [] id = "sitemap"     -> ~work.siteInfo.hasSitemap
          [] id = "kw-coverage" -> kw # <<>> /\ ~kw[1].inTitle /\ ~kw[1].inH1
          [] id = "alt-text"    -> html.totalImages > 0 /\ 2 * html.imagesWithAlt < html.totalImages
          [] id = "lh-seo"      -> CatScore("seo") < 70
          [] id = "aeo-content" -> html.questionH2Count = 0 /\ ~html.hasFAQSchema
          [] id = "a11y"        -> CatScore("accessibility") < 70

RulePriority(id) ==
    CASE id \in {"https", "perf", "h1"} -> "critical"
      [] id \in {"perf-med", "meta-desc", "faq-schema", "org-schema", "sitemap", "kw-coverage"} -> "high"
      [] id \in {"alt-text", "aeo-content", "a11y"} -> "medium"
      [] id = "lh-seo" -> IF CatScore("seo") < 50 THEN "critical" ELSE "high"

\* C10: the full list holds a rule's recommendation exactly once when the rule's condition
\* is true and not at all otherwise, with the rule's priority; no rule suppresses another
C10_EveryHoldingRuleOnce ==
    Recommended =>
        /\ \A id \in RuleIds :
              Cardinality({ i \in 1..Len(work.recommendations) : work.recommendations[i].id = id })
                 = IF RuleHolds(id) THEN 1 ELSE 0
        /\ \A i \in 1..Len(work.recommendations) :
              /\ work.recommendations[i].id \in RuleIds
              /\ work.recommendations[i].priority = RulePriority(work.recommendations[i].id)

C10_Witness ==
    /\ Recommended
    /\ RuleHolds("https")
    /\ RuleHolds("perf")
    /\ RuleHolds("h1")
    /\ RuleHolds("lh-seo")
    /\ RuleHolds("a11y")
    /\ ~RuleHolds("sitemap")
    /\ Len(work.recommendations) >= 9


\* C11 (as stated): the response holds the sorted list cut to a fixed display count, and
\* gatedRecsCount is the length of the full list minus the number of recommendations in
\* the response
C11_GatedIsFullMinusPresent ==
    Recommended =>
        /\ response.recommendations
              = SubSeq(work.recommendations, 1, Len(response.recommendations))
        /\ response.gatedRecsCount
              = Len(work.recommendations) - Len(response.recommendations)

\* C11 (amended): the response holds the first 8 recommendations of the sorted list (all of
\* them when there are fewer), and gatedRecsCount is the number of recommendations beyond
\* the first 3 of the full list, 0 when there are at most 3
C11_GatedCountsBeyondThree ==
    Recommended =>
        LET full == work.recommendations
            sent == response.recommendations
        IN  /\ Len(sent) = IF Len(full) < 8 THEN Len(full) ELSE 8
            /\ \A i \in 1..Len(sent) : sent[i] = full[i]
            /\ response.gatedRecsCount = IF Len(full) > 3 THEN Len(full) - 3 ELSE 0

C11_Witness ==
    /\ Recommended
    /\ Len(work.recommendations) = 9
    /\ Len(response.recommendations) = 8
    /\ response.gatedRecsCount = 6


-----------------------------------------------------------------------------
(* Concurrent invocations of the six-pillar handler.  Every name of POST is  *)
(* a local of one invocation, so each variable of the single-invocation     *)
(* machine becomes a function of the invocation; STOP_WORDS, the only       *)
(* module-level object, is never written.                                   *)

Invocations == {1, 2}

ConcBodies ==
    { [json |-> FALSE, isNull |-> FALSE, urlType |-> "undefined", urlStr |-> ""],
      [json |-> TRUE, isNull |-> FALSE, urlType |-> "string", urlStr |-> "exa mple.com"],
      [json |-> TRUE, isNull |-> FALSE, urlType |-> "string", urlStr |-> " example.com/audit "],
      [json |-> TRUE, isNull |-> FALSE, urlType |-> "string", urlStr |-> "http://example.com"] }

\* what the four servers may answer an invocation
ConcAnswers(e) ==
    CASE e = "psi" ->
            { [net |-> "timeout", json |-> FALSE],
              [net |-> "ok", json |-> TRUE,
               body |-> PsiBody(FALSE, 429, FALSE, FALSE, NoCats, Null)],
              [net |-> "ok", json |-> TRUE,
               body |-> PsiBody(FALSE, 0, TRUE, TRUE,
                                Cats(Some(90), Some(80), Some(70), Some(90)), Null)] }
      [] e = "html" ->
            { [net |-> "timeout"],
              [net |-> "ok", httpOk |-> TRUE, text |-> [isEmpty |-> FALSE, doc |-> RichDoc]] }
      [] e = "robots" ->
            { [net |-> "error"],
              [net |-> "ok", httpOk |-> TRUE, text |-> "User-agent: *\nDisallow: /\n"] }
      [] e = "sitemap" ->
            { [net |-> "timeout"],
              [net |-> "ok", httpOk |-> TRUE, text |-> "<urlset></urlset>"] }

\* lines 598-610: what the head of the handler decides from the request body alone
Accept(body) ==
    IF ~body.json
    THEN [fetch |-> FALSE, url |-> "", response |-> ErrorResponse(500, MsgUnexpected)]
    ELSE IF body.isNull \/ RawUrlRejected(body)
    THEN [fetch |-> FALSE, url |-> "", response |-> ErrorResponse(400, MsgNoUrl)]
    ELSE IF ~ParseURL(NormalizeUrl(body.urlStr)).ok
    THEN [fetch |-> FALSE, url |-> NormalizeUrl(body.urlStr),
          response |-> ErrorResponse(400, MsgBadUrl)]
    ELSE [fetch |-> TRUE, url |-> NormalizeUrl(body.urlStr), response |-> NoResponse]

ConcInit ==
    /\ pc = [i \in Invocations |-> "idle"]
    /\ reqBody = [i \in Invocations |->
                    [json |-> FALSE, isNull |-> FALSE, urlType |-> "undefined", urlStr |-> ""]]
    /\ url = [i \in Invocations |-> ""]
    /\ issued = [i \in Invocations |-> [e \in Endpoints |-> 0]]
    /\ upstream = [i \in Invocations |-> [e \in Endpoints |-> Unissued]]
    /\ response = [i \in Invocations |-> NoResponse]
    /\ work = [i \in Invocations |-> NoWork]

\* lines 598-627 in invocation i
ConcReceive(i, body) ==
    /\ pc[i] = "idle"
    /\ reqBody' = [reqBody EXCEPT ![i] = body]
    /\ work' = [work EXCEPT ![i] = NoWork]
    /\ \E head \in { Accept(body) } :
          /\ url' = [url EXCEPT ![i] = head.url]
          /\ response' = [response EXCEPT ![i] = head.response]
          /\ IF head.fetch
             THEN /\ issued' = [issued EXCEPT ![i] = [e \in Endpoints |-> @[e] + 1]]
                  /\ upstream' = [upstream EXCEPT ![i] =
                                    [e \in Endpoints |-> Pending(e, head.url)]]
                  /\ pc' = [pc EXCEPT ![i] = "awaiting"]
             ELSE /\ pc' = [pc EXCEPT ![i] = "done"]
                  /\ UNCHANGED <<issued, upstream>>

\* one fetch of invocation i settles
ConcSettle(i, e, ans) ==
    /\ pc[i] = "awaiting"
    /\ upstream[i][e].st = "pending"
    /\ upstream' = [upstream EXCEPT ![i][e] =
                      [st |-> "settled", target |-> @.target, ans |-> ans]]
    /\ UNCHANGED <<pc, reqBody, url, issued, response, work>>

ConcAllSettled(i) == \A e \in Endpoints : upstream[i][e].st = "settled"

\* variant that reads the page from a slot shared by the invocations: the page fetched
\* by the first invocation that has one
ConcRespondSharedPage(i) ==
    /\ pc[i] = "awaiting"
    /\ ConcAllSettled(i)
    /\ \E j \in { k \in Invocations : /\ upstream[k]["html"].st = "settled"
                                      /\ \A m \in Invocations :
                                            upstream[m]["html"].st = "settled" => k <= m } :
       \E out \in { HandlerTail(url[i], PsiPromise(upstream[i]["psi"].ans),
                                  HtmlPromise(upstream[j]["html"].ans),
                                  TextPromise(upstream[i]["robots"].ans),
                                  TextPromise(upstream[i]["sitemap"].ans)) } :
          /\ response' = [response EXCEPT ![i] = out.response]
          /\ work' = [work EXCEPT ![i] = out.work]
    /\ pc' = [pc EXCEPT ![i] = "done"]
    /\ UNCHANGED <<reqBody, url, issued, upstream>>

\* variant that answers 429 whenever another invocation has been answered before
ConcRespondThrottled(i) ==
    /\ pc[i] = "awaiting"
    /\ ConcAllSettled(i)
    /\ \E out \in { IF \E j \in Invocations \ {i} : pc[j] = "done"
                    THEN [response |-> ErrorResponse(429, MsgRateLimit), work |-> NoWork]
                    ELSE HandlerTail(url[i], PsiPromise(upstream[i]["psi"].ans),
                                     HtmlPromise(upstream[i]["html"].ans),
                                     TextPromise(upstream[i]["robots"].ans),
                                     TextPromise(upstream[i]["sitemap"].ans)) } :
          /\ response' = [response EXCEPT ![i] = out.response]
          /\ work' = [work EXCEPT ![i] = out.work]
    /\ pc' = [pc EXCEPT ![i] = "done"]
    /\ UNCHANGED <<reqBody, url, issued, upstream>>

\* lines 629-735 in invocation i: only its own url and its own four results are read
ConcRespond(i) ==
    /\ pc[i] = "awaiting"
    /\ ConcAllSettled(i)
    /\ \E out \in { HandlerTail(url[i], PsiPromise(upstream[i]["psi"].ans),
                                     HtmlPromise(upstream[i]["html"].ans),
                                     TextPromise(upstream[i]["robots"].ans),
                                     TextPromise(upstream[i]["sitemap"].ans)) } :
          /\ response' = [response EXCEPT ![i] = out.response]
          /\ work' = [work EXCEPT ![i] = out.work]
    /\ pc' = [pc EXCEPT ![i] = "done"]
    /\ UNCHANGED <<reqBody, url, issued, upstream>>

\* invocation i has returned; its locals are gone
ConcFinish(i) ==
    /\ pc[i] = "done"
    /\ pc' = [pc EXCEPT ![i] = "idle"]
    /\ reqBody' = [reqBody EXCEPT ![i] =
                     [json |-> FALSE, isNull |-> FALSE, urlType |-> "undefined", urlStr |-> ""]]
    /\ url' = [url EXCEPT ![i] = ""]
    /\ issued' = [issued EXCEPT ![i] = [e \in Endpoints |-> 0]]
    /\ upstream' = [upstream EXCEPT ![i] = [e \in Endpoints |-> Unissued]]
    /\ response' = [response EXCEPT ![i] = NoResponse]
    /\ work' = [work EXCEPT ![i] = NoWork]

ConcNext ==
    \/ \E i \in Invocations : \E body \in ConcBodies : ConcReceive(i, body)
    \/ \E i \in Invocations : \E e \in Endpoints : \E ans \in ConcAnswers(e) : ConcSettle(i, e, ans)
    \/ \E i \in Invocations : ConcRespond(i)
    \/ \E i \in Invocations : ConcFinish(i)

ConcSpec == ConcInit /\ [][ConcNext]_vars

AloneResponse(body, results) ==
    IF Accept(body).fetch
    THEN HandlerTail(Accept(body).url, PsiPromise(results["psi"].ans),
                     HtmlPromise(results["html"].ans),
                     TextPromise(results["robots"].ans),
                     TextPromise(results["sitemap"].ans)).response
    ELSE Accept(body).response

PsiRejected == upstream["psi"].st = "settled" /\ PsiPromise(upstream["psi"].ans).status = "rejected"

\* C14: the four fetches of a request with a valid URL are issued together, before any is
\* awaited, and no response, success or error, is sent until all four have settled, also
\* when the PageSpeed fetch has failed already
C14_AwaitedJointly ==
    /\ pc = "awaiting" =>
          /\ response = NoResponse
          /\ \A e \in Endpoints : issued[e] = 1 /\ upstream[e].st # "none"
    /\ (pc = "done" /\ \E e \in Endpoints : issued[e] > 0) => AllSettled

\* answered 504 after the PageSpeed fetch failed and the three other fetches succeeded
C14_Witness ==
    /\ pc = "done"
    /\ PsiRejected
    /\ \A e \in Endpoints \ {"psi"} : upstream[e].st = "settled" /\ upstream[e].ans.net = "ok"
    /\ response.status = 504


\* C15: within one request each of the four endpoints is fetched at most once, a fetch
\* that failed or timed out is not issued again, and every failure of the PageSpeed call
\* (network error, timeout, a body that is not JSON, a body without a usable result) ends
\* the request with an error response
C15_NoRetryAndPsiFailureIsError ==
    /\ \A e \in Endpoints :
          /\ issued[e] <= 1
          /\ upstream[e].st # "none" => issued[e] = 1
    /\ (Audited /\ ~PsiUsable) =>
          /\ response.status \in {400, 429, 500, 504}
          /\ response = ErrorResponse(response.status, response.error)
          /\ Len(response.error) > 0
    /\ (Audited /\ PsiRejected) => response.status = 504

\* the PageSpeed fetch and the page fetch both failed on the network; each was issued once
C15_Witness ==
    /\ Audited
    /\ PsiAns.net = "error"
    /\ HtmlAns.net = "timeout"
    /\ \A e \in Endpoints : issued[e] = 1
    /\ response.status = 504


\* C16: a submitted url string that, once trimmed, starts with neither http:// nor https://
\* gets https:// prepended before it is validated and before any fetch is issued; a url
\* that starts with one of them is kept as trimmed; the url echoed in a 200 response, the
\* url parameter of the PageSpeed call, the page fetch and the origin of the robots.txt
\* and sitemap.xml fetches all come from that URL
C16_SchemePrefixedBeforeUse ==
    (pc # "idle" /\ reqBody.json /\ ~reqBody.isNull
        /\ reqBody.urlType = "string" /\ reqBody.urlStr # "") =>
        LET t == Trim(reqBody.urlStr)
            prefixed == IF StartsWith(t, "http://") \/ StartsWith(t, "https://")
                        THEN t ELSE "https://" \o t
        IN  /\ url = prefixed
            /\ ~ParseURL(prefixed).ok =>
                  /\ pc = "done"
                  /\ response = ErrorResponse(400, MsgBadUrl)
                  /\ \A e \in Endpoints : issued[e] = 0 /\ upstream[e] = Unissued
            /\ ParseURL(prefixed).ok =>
                  /\ upstream["psi"].target.url = prefixed
                  /\ upstream["html"].target = prefixed
                  /\ upstream["robots"].target = ParseURL(prefixed).origin \o "/robots.txt"
                  /\ upstream["sitemap"].target = ParseURL(prefixed).origin \o "/sitemap.xml"
                  /\ (pc = "done" /\ response.status = 200) =>
                        /\ response.url = prefixed
                        /\ response.health.domain = ParseURL(prefixed).hostname

\* " example.com/audit " was audited as https://example.com/audit
C16_Witness ==
    /\ Audited
    /\ reqBody.urlStr = " example.com/audit "
    /\ response.status = 200
    /\ response.url = "https://example.com/audit"
    /\ upstream["psi"].target.url = "https://example.com/audit"
    /\ upstream["robots"].target = "https://example.com/robots.txt"
    /\ upstream["sitemap"].target = "https://example.com/sitemap.xml"

\* "http://example.com" was audited under the scheme it came with
C16_WitnessSchemeKept ==
    /\ Audited
    /\ reqBody.urlStr = "http://example.com"
    /\ response.status = 200
    /\ response.url = "http://example.com"
    /\ upstream["robots"].target = "http://example.com/robots.txt"


\* the Technical SEO pillar of the answered request had the page carried the given images
TechnicalSeoWithImages(total, withAlt) ==
    scoreTechnicalSEO(CatScore("seo"),
                      [work.analysis EXCEPT !.totalImages = total, !.imagesWithAlt = withAlt],
                      url, work.siteInfo, PsiAns.body.audits)

\* C17: for a signal record with totalImages = 0, scoreTechnicalSEO awards the 4 alt-text
\* points, as it does for a page whose every image has alt text and 4 more than for a
\* page whose only image has none; the "Image alt text" check is passed; and
\* buildRecommendations emits no "alt-text" recommendation
C17_NoImagesCountAsFullAltCoverage ==
    (Recommended /\ work.analysis.totalImages = 0) =>
        LET tech == response.pillars.technicalSeo
        IN  /\ tech.points = TechnicalSeoWithImages(1, 0).points + 4
            /\ tech.points = TechnicalSeoWithImages(1, 1).points
            /\ \E i \in 1..Len(tech.checks) :
                  tech.checks[i] = Check("Image alt text", TRUE)
            /\ \A i \in 1..Len(work.recommendations) :
                  work.recommendations[i].id # "alt-text"

\* a fetched page with no img element at all
C17_Witness ==
    /\ Recommended
    /\ HtmlAns.net = "ok"
    /\ ~HtmlAns.text.isEmpty
    /\ HtmlAns.text.doc.imgs = <<>>
    /\ Len(work.analysis.h1Tags) > 0
    /\ work.analysis.totalImages = 0
    /\ response.pillars.technicalSeo.checks[8] = Check("Image alt text", TRUE)


\* the page that was fetched, when the page fetch delivered a document
FetchedDoc == HtmlAns.text.doc

PageParsed ==
    /\ Recommended
    /\ HtmlAns.net = "ok"
    /\ ~HtmlAns.text.isEmpty

\* every string @type value of every item of a block that is valid JSON, in order
RECURSIVE DeclaredTypes(_, _)
DeclaredTypes(items, i) ==
    IF i > Len(items) THEN <<>>
    ELSE (IF items[i].isNull THEN <<>>
          ELSE LET strs == SelectSeq(ArrayOf(items[i].types), LAMBDA t : t.isStr)
               IN  ArrayOf([k \in 1..Len(strs) |-> strs[k].v]))
         \o DeclaredTypes(items, i + 1)

RECURSIVE DeclaredTypesOfBlocks(_, _)
DeclaredTypesOfBlocks(blocks, i) ==
    IF i > Len(blocks) THEN <<>>
    ELSE (IF blocks[i].valid THEN DeclaredTypes(blocks[i].items, 1) ELSE <<>>)
         \o DeclaredTypesOfBlocks(blocks, i + 1)

SchemaFields ==
    { "schemaTypes", "hasSchema", "hasFAQSchema", "hasHowToSchema", "hasOrgSchema",
      "hasLocalBizSchema", "hasArticleSchema", "hasBreadcrumbSchema", "hasWebSiteSchema" }

\* C18: a JSON-LD block that does not parse adds nothing to schemaTypes and sets no flag,
\* every valid block before and after it adds all of its @type values and sets their
\* flags, and the signals that are not schema signals are those of the page without the
\* broken block
C18_MalformedBlockSkipped ==
    (PageParsed /\ \E b \in 1..Len(FetchedDoc.ldjson) : ~FetchedDoc.ldjson[b].valid) =>
        LET types   == DeclaredTypesOfBlocks(FetchedDoc.ldjson, 1)
            has(t)  == \E k \in 1..Len(types) : types[k] = t
            a       == work.analysis
            cleaned == parseHTML([FetchedDoc EXCEPT !.ldjson =
                                    SelectSeq(FetchedDoc.ldjson, LAMBDA b : b.valid)], url)
        IN  /\ a.schemaTypes = types
            /\ a.hasFAQSchema = has("FAQPage")
            /\ a.hasHowToSchema = has("HowTo")
            /\ a.hasOrgSchema = has("Organization")
            /\ a.hasLocalBizSchema = \E k \in 1..Len(types) : IsLocalBizType(types[k])
            /\ a.hasArticleSchema = (has("Article") \/ has("BlogPosting") \/ has("NewsArticle"))
            /\ a.hasBreadcrumbSchema = has("BreadcrumbList")
            /\ a.hasWebSiteSchema = has("WebSite")
            /\ \A f \in (DOMAIN a) \ SchemaFields : a[f] = cleaned[f]


-----------------------------------------------------------------------------
(* extractKeywords applied to signal records                               *)

\* signal records around the word "audit": in or out of the title, the H1s, the meta
\* description, the H2s and the body text
KwRecords ==
    LET titles == { Some("Audit"), Some("Website Audit"), Some("Kitchen plans") }
        h1Tags == { <<"Audit">>, <<"Kitchen", "Free Audit">>, <<>> }
        descs  == { Some("Book an audit today"), Null,
                    Some("Your audit: plans & prices, with Kitchen-Audit!") }
        h2Tags == { <<>>, <<"Kitchen plans", "Kitchen prices">>,
                    <<"Alpha plans", "Bravo", "Charlie", "Delta", "Echoes", "Foxtrot",
                      "Golfing", "Hotels", "India">> }
        bodies == { <<>>, <<[text |-> "kitchen", rep |-> 13]>>,
                    <<[text |-> "audit", rep |-> 1]>> }
    IN  { [DefaultAnalysis EXCEPT !.title = t, !.titleLength = Len(OrEmpty(t)),
                                  !.metaDescription = d, !.metaDescLength = Len(OrEmpty(d)),
                                  !.h1Tags = h1, !.h2Tags = h2, !.bodyText = b,
                                  !.wordCount = WordCountOf(b), !.fetchError = FALSE] :
            t \in titles, h1 \in h1Tags, d \in descs, h2 \in h2Tags, b \in bodies }

KwInit ==
    /\ pc = "record"
    /\ reqBody = [json |-> FALSE, isNull |-> FALSE, urlType |-> "undefined", urlStr |-> ""]
    /\ url \in { "https://example.com/audit", "https://example.com/kitchen" }
    /\ issued = [e \in Endpoints |-> 0]
    /\ upstream = [e \in Endpoints |-> Unissued]
    /\ response = NoResponse
    /\ \E a \in KwRecords : work = [steps |-> {}, recommendations |-> <<>>, analysis |-> a]

\* line 675: extractKeywords(htmlAnalysis, url)
KwExtract ==
    /\ pc = "record"
    /\ pc' = "extracted"
    /\ \E kws \in { extractKeywords(work.analysis, url) } :
          work' = [steps |-> {"extractKeywords"}, recommendations |-> <<>>,
                   analysis |-> work.analysis, keywords |-> kws]
    /\ UNCHANGED <<reqBody, url, issued, upstream, response>>

KwSpec == KwInit /\ [][KwExtract]_vars

\* w is a keyword token of the text
OccursIn(w, text) == \E i \in 1..Len(KeywordTokens(text)) : KeywordTokens(text)[i] = w

\* w occurs in the title, in an H1 and in the meta description, and in no H2 and not in
\* the body text
OnlyInTitleH1Meta(w, a) ==
    /\ OccursIn(w, OrEmpty(a.title))
    /\ \E i \in 1..Len(a.h1Tags) : OccursIn(w, a.h1Tags[i])
    /\ OccursIn(w, OrEmpty(a.metaDescription))
    /\ \A i \in 1..Len(a.h2Tags) : ~OccursIn(w, a.h2Tags[i])
    /\ \A i \in 1..Len(a.bodyText) : ~OccursIn(w, a.bodyText[i].text)

\* C19: when a word w (longer than 3 characters, not a stop-word) occurs in the title, in
\* an H1 and in the meta description of a signal record and nowhere else, extractKeywords
\* returns w as the first keyword, with inTitle, inH1 and inMetaDesc true and inURL true
\* exactly when the URL path contains w
C19_UniqueWordRankedFirst ==
    pc = "extracted" =>
        \A w \in SeqToSet(KeywordTokens(OrEmpty(work.analysis.title))) :
            OnlyInTitleH1Meta(w, work.analysis) =>
                /\ Len(work.keywords) > 0
                /\ work.keywords[1].word = w
                /\ work.keywords[1].inTitle
                /\ work.keywords[1].inH1
                /\ work.keywords[1].inMetaDesc
                /\ work.keywords[1].inURL = Includes(ToLower(ParseURL(url).pathname), w)


-----------------------------------------------------------------------------
(* The five-pillar handler (second POST, lines 773-1000).  It validates the *)
(* url as the six-pillar handler does, awaits one PageSpeed fetch and       *)
(* scores from the Lighthouse categories and audits alone.                  *)

\* variant that does not clamp the score
toPointsUnclamped(score, max) ==
    IF ~score.some THEN 0 ELSE RoundTimes(score.v, max)

\* lines 768-771: Math.round(clamp(score, 0, 1) * max); 0.58 * 25 is 14.499999999999998
\* in double arithmetic, every other product of a two-decimal score rounds as the exact one
toPoints(score, max) ==
    IF ~score.some THEN 0
    ELSE IF max = 25 /\ clamp(score.v, 0, 100) = 58 THEN 14
    ELSE RoundTimes(clamp(score.v, 0, 100), max)

FiveAuditNames ==
    {"meta-description", "structured-data", "schema-org", "viewport", "document-title",
     "canonical"}

\* what the PageSpeed fetch of the five-pillar handler may deliver: an abort, a network
\* error, a non-2xx status with an error message, a body that is not JSON, null, a body
\* without lighthouseResult, a result
FivePsiAnswers ==
    LET cats   == CategoryScores
                    \cup { Cats(Some(150), Some(0 - 20), Some(58), Some(100)),
                           Cats(Some(58), Some(58), Null, Some(5)) }
        audits == { [n \in FiveAuditNames |-> Some(100)],
                    [n \in FiveAuditNames |-> Null],
                    [n \in FiveAuditNames |->
                        IF n \in {"structured-data", "canonical"} THEN Null
                        ELSE IF n = "meta-description" THEN Some(99) ELSE Some(100)],
                    [n \in FiveAuditNames |->
                        IF n \in {"schema-org", "viewport"} THEN Some(0) ELSE Some(100)] }
    IN  { [net |-> "abort"], [net |-> "error"] }
        \cup { [net |-> "ok", httpOk |-> FALSE, status |-> st, message |-> m] :
                  st \in {400, 429, 500, 503}, m \in {"", "Invalid value 'x'"} }
        \cup { [net |-> "ok", httpOk |-> TRUE, json |-> FALSE] }
        \cup { [net |-> "ok", httpOk |-> TRUE, json |-> TRUE, data |-> [isNull |-> TRUE]],
               [net |-> "ok", httpOk |-> TRUE, json |-> TRUE,
                data |-> [isNull |-> FALSE, hasLighthouse |-> FALSE]] }
        \cup { [net |-> "ok", httpOk |-> TRUE, json |-> TRUE,
                data |-> [isNull |-> FALSE, hasLighthouse |-> TRUE, cats |-> c, audits |-> a]] :
                  c \in cats, a \in audits }

\* lines 861-989: the rules in order, then the stable sort by priority
FiveRecommendations(perf, seo, a11y, bp, hasHTTPS, hasMetaDesc, hasSchema) ==
    SortByPriority(
        If(~hasHTTPS, Rec("https", "critical", "Security"))
     \o If(perf < 50, Rec("perf-critical", "critical", "Performance"))
     \o If(perf >= 50 /\ perf < 75, Rec("perf-high", "high", "Performance"))
     \o If(seo < 70, Rec("seo", IF seo < 50 THEN "critical" ELSE "high", "SEO"))
     \o If(~hasMetaDesc, Rec("meta-desc", "high", "GEO Readiness"))
     \o If(~hasSchema, Rec("schema", "high", "GEO Readiness"))
     \o If(a11y < 70, Rec("a11y", "medium", "Accessibility"))
     \o If(bp < 80, Rec("bp", "medium", "Technical")))

\* lines 836-989: the 200 response computed from the PageSpeed body
FiveAudit(pageUrl, data) ==
    LET cats     == IF data.hasLighthouse THEN data.cats ELSE NoCats
        Audit(n) == IF data.hasLighthouse THEN ScoreOrZero(data.audits[n]) ELSE 0
        perf == ScoreOrZero(cats.performance)
        a11y == ScoreOrZero(cats.accessibility)
        bp   == ScoreOrZero(cats.bestPractices)
        seo  == ScoreOrZero(cats.seo)
        hasHTTPS     == StartsWith(pageUrl, "https://")
        hasMetaDesc  == Audit("meta-description") >= 100
        hasSchema    == Audit("structured-data") >= 100 \/ Audit("schema-org") >= 100
        hasViewport  == Audit("viewport") >= 100
        hasTitle     == Audit("document-title") >= 100
        hasCanonical == Audit("canonical") >= 100
        geoRaw  == 5 * B2N(hasHTTPS) + 4 * B2N(hasMetaDesc) + 5 * B2N(hasSchema)
                   + 3 * B2N(hasViewport) + 2 * B2N(hasTitle) + B2N(hasCanonical)
        geoNorm == 5 * geoRaw
        perfPts == toPoints(Some(perf), 30)
        seoPts  == toPoints(Some(seo), 25)
        geoPts  == toPoints(Some(geoNorm), 20)
        a11yPts == toPoints(Some(a11y), 15)
        bpPts   == toPoints(Some(bp), 10)
        Pillar(score, points, max) == [score |-> score, points |-> points, maxPoints |-> max]
    IN  [ status  |-> 200,
          score   |-> perfPts + seoPts + geoPts + a11yPts + bpPts,
          url     |-> pageUrl,
          pillars |-> [ performance   |-> Pillar(perf, perfPts, 30),
                        seo           |-> Pillar(seo, seoPts, 25),
                        geo           |-> Pillar(geoNorm, geoPts, 20),
                        accessibility |-> Pillar(a11y, a11yPts, 15),
                        bestPractices |-> Pillar(bp, bpPts, 10) ],
          recommendations |->
              Take(FiveRecommendations(perf, seo, a11y, bp, hasHTTPS, hasMetaDesc, hasSchema), 5) ]

\* lines 806-999: from the settled PageSpeed fetch to the response
FiveTail(pageUrl, ans) ==
    IF ans.net = "abort"
    THEN ErrorResponse(504, "Analysis timed out. The site may be very slow, or try again in a moment.")
    ELSE IF ans.net # "ok" THEN ErrorResponse(500, MsgUnexpected)
    ELSE IF ~ans.httpOk
    THEN IF ans.status = 429 THEN ErrorResponse(429, MsgRateLimit)
         ELSE IF ans.status = 400 \/ Includes(ToLower(ans.message), "invalid")
         THEN ErrorResponse(400, "Couldn't reach that website. Make sure it's publicly accessible.")
         ELSE ErrorResponse(502, "Analysis failed (status " \o ToString(ans.status)
                                  \o "). Please try again in a moment.")
    ELSE IF ~ans.json \/ ans.data.isNull THEN ErrorResponse(500, MsgUnexpected)
    ELSE FiveAudit(pageUrl, ans.data)

FiveInit ==
    /\ pc = "idle"
    /\ reqBody = [json |-> FALSE, isNull |-> FALSE, urlType |-> "undefined", urlStr |-> ""]
    /\ url = ""
    /\ issued = [e \in {"psi"} |-> 0]
    /\ upstream = [e \in {"psi"} |-> Unissued]
    /\ response = NoResponse
    /\ work = NoWork

\* lines 773-814: validate the url and send the PageSpeed request
FiveReceive(body) ==
    /\ pc = "idle"
    /\ reqBody' = body
    /\ \E head \in { Accept(body) } :
          /\ url' = head.url
          /\ response' = head.response
          /\ IF head.fetch
             THEN /\ issued' = [issued EXCEPT !["psi"] = @ + 1]
                  /\ upstream' = [upstream EXCEPT !["psi"] = Pending("psi", head.url)]
                  /\ pc' = "awaiting"
             ELSE /\ pc' = "done"
                  /\ UNCHANGED <<issued, upstream>>
    /\ UNCHANGED work

\* the awaited fetch resolves or rejects
FiveSettle(ans) ==
    /\ pc = "awaiting"
    /\ upstream["psi"].st = "pending"
    /\ upstream' = [upstream EXCEPT !["psi"] =
                      [st |-> "settled", target |-> @.target, ans |-> ans]]
    /\ UNCHANGED <<pc, reqBody, url, issued, response, work>>

\* lines 816-999
FiveRespond ==
    /\ pc = "awaiting"
    /\ upstream["psi"].st = "settled"
    /\ response' = FiveTail(url, upstream["psi"].ans)
    /\ pc' = "done"
    /\ UNCHANGED <<reqBody, url, issued, upstream, work>>

FiveFinish ==
    /\ pc = "done"
    /\ pc' = "idle"
    /\ reqBody' = [json |-> FALSE, isNull |-> FALSE, urlType |-> "undefined", urlStr |-> ""]
    /\ url' = ""
    /\ issued' = [e \in {"psi"} |-> 0]
    /\ upstream' = [e \in {"psi"} |-> Unissued]
    /\ response' = NoResponse
    /\ UNCHANGED work

FiveNext ==
    \/ \E body \in ConcBodies : FiveReceive(body)
    \/ \E ans \in FivePsiAnswers : FiveSettle(ans)
    \/ FiveRespond
    \/ FiveFinish

FiveSpec == FiveInit /\ [][FiveNext]_vars

\* the five-pillar handler answered 200
FiveScored == pc = "done" /\ response.status = 200

\* the Lighthouse category score PageSpeed delivered, Null when missing or null
FiveCategory(name) ==
    IF upstream["psi"].ans.data.hasLighthouse
    THEN upstream["psi"].ans.data.cats[name] ELSE Null

\* C20: the five-pillar handler awards Performance at most 30, SEO at most 25, GEO
\* Readiness at most 20, Accessibility at most 15 and Best Practices at most 10 points;
\* each pillar's points lie in 0..maxPoints, score is their sum and lies in 0..100, and a
\* missing or null Lighthouse category score counts as 0 points
C20_FivePillarScoreInRange ==
    FiveScored =>
        LET p == response.pillars
        IN  /\ p.performance.maxPoints = 30 /\ p.seo.maxPoints = 25 /\ p.geo.maxPoints = 20
            /\ p.accessibility.maxPoints = 15 /\ p.bestPractices.maxPoints = 10
            /\ \A n \in DOMAIN p : p[n].points \in 0..p[n].maxPoints
            /\ response.score = p.performance.points + p.seo.points + p.geo.points
                                + p.accessibility.points + p.bestPractices.points
            /\ response.score \in 0..100
            /\ ~FiveCategory("performance").some => p.performance.points = 0
            /\ ~FiveCategory("seo").some => p.seo.points = 0
            /\ ~FiveCategory("accessibility").some => p.accessibility.points = 0
            /\ ~FiveCategory("bestPractices").some => p.bestPractices.points = 0

\* every pillar at its maximum: score 100
C20_Witness ==
    /\ FiveScored
    /\ response.score = 100
    /\ response.pillars.performance.points = 30
    /\ response.pillars.geo.points = 20

\* a result with a null category and scores outside 0..1
C20_WitnessNullCategory ==
    /\ FiveScored
    /\ upstream["psi"].ans.data.hasLighthouse
    /\ ~FiveCategory("accessibility").some
    /\ FiveCategory("performance").some
    /\ response.pillars.accessibility.points = 0
    /\ response.score > 0


\* C21 (as stated): the normalized score of every pillar of the six-pillar handler is
\* round(points / maxPoints * 100), the performance pillar included
C21_ScoreIsPointsOverMax ==
    Recommended =>
        \A n \in PillarNames :
            LET p == response.pillars[n]
            IN  p.score = (200 * p.points + p.maxPoints) \div (2 * p.maxPoints)

\* C21 (amended): the normalized score is round(points / maxPoints * 100) for the five
\* pillars other than performance; the performance pillar's score is the Lighthouse
\* performance value times 100, rounded, whatever its points are
C21_ScoreIsPointsOverMaxButPerformance ==
    Recommended =>
        /\ \A n \in PillarNames \ {"performance"} :
              LET p == response.pillars[n]
              IN  p.score = (200 * p.points + p.maxPoints) \div (2 * p.maxPoints)
        /\ response.pillars.performance.score = CatScore("performance")
        /\ response.pillars.performance.points = (CatScore("performance") * 15 + 50) \div 100

\* performance 0.49: 7 of 15 points, score 49 and not 47; the other pillars partly filled
C21_Witness ==
    /\ Recommended
    /\ CatScore("performance") = 49
    /\ response.pillars.performance.points = 7
    /\ response.pillars.performance.score = 49
    /\ response.pillars.technicalSeo.points \in 1..24
    /\ response.pillars.aeoReadiness.points \in 1..19
    /\ response.pillars.accessibility.points \in 1..7


\* the lower-cased alphanumeric tokens of a text, short words and stop-words included
RawTokens(text) == SplitWs(AlnumOnly(ToLower(text)))

\* the number of tokens of the text that are w
Occurrences(w, text) == Cardinality({ i \in 1..Len(RawTokens(text)) : RawTokens(text)[i] = w })

RECURSIVE AllTokens(_, _)
AllTokens(texts, i) ==
    IF i > Len(texts) THEN <<>> ELSE RawTokens(texts[i]) \o AllTokens(texts, i + 1)

\* the five zones of a signal record in scanning order; the body zone is its units
ZoneTexts(a) ==
    << OrEmpty(a.title), JoinSp(a.h1Tags), OrEmpty(a.metaDescription),
       JoinSp(SubSeq(a.h2Tags, 1, Min2(8, Len(a.h2Tags)))) >>
    \o ArrayOf([i \in 1..Len(a.bodyText) |-> a.bodyText[i].text])

\* weight x occurrences, summed over the zones
WeightedCount(w, a) ==
    5 * Occurrences(w, OrEmpty(a.title))
    + 4 * Occurrences(w, JoinSp(a.h1Tags))
    + 3 * Occurrences(w, OrEmpty(a.metaDescription))
    + 2 * Occurrences(w, JoinSp(SubSeq(a.h2Tags, 1, Min2(8, Len(a.h2Tags)))))
    + SeqSum(ArrayOf([i \in 1..Len(a.bodyText) |->
                        a.bodyText[i].rep * Occurrences(w, a.bodyText[i].text)]))

\* C22: extractKeywords returns at most 8 keywords, each a token longer than 3 characters
\* that is not a stop-word, with count = sum over the zones of weight x occurrences
\* (title 5, H1s 4, meta description 3, first eight H2s 2, body text 1); counts do not
\* increase along the list, equal counts are in order of first occurrence across the
\* zones, and a token that is left out has no larger count than any returned keyword
\* (it is left out only when 8 were returned)
C22_TopEightByWeightedCount ==
    pc = "extracted" =>
        LET a      == work.analysis
            kws    == work.keywords
            stream == AllTokens(ZoneTexts(a), 1)
            First(w) == CHOOSE i \in 1..Len(stream) :
                            stream[i] = w /\ \A j \in 1..(i - 1) : stream[j] # w
            cands  == { w \in SeqToSet(stream) : Len(w) > 3 /\ w \notin STOP_WORDS }
            words  == { kws[i].word : i \in 1..Len(kws) }
        IN  /\ Len(kws) <= 8
            /\ \A i \in 1..Len(kws) :
                  /\ kws[i].word \in cands
                  /\ kws[i].count = WeightedCount(kws[i].word, a)
            /\ \A i, j \in 1..Len(kws) :
                  i < j => \/ kws[i].count > kws[j].count
                           \/ /\ kws[i].count = kws[j].count
                              /\ First(kws[i].word) < First(kws[j].word)
            /\ \A w \in cands \ words :
                  /\ Len(kws) = 8
                  /\ \A i \in 1..Len(kws) : WeightedCount(w, a) <= kws[i].count

\* more than eight candidate tokens, nine H2s, a tie among the returned keywords and a
\* keyword counted in several zones
C22_Witness ==
    /\ pc = "extracted"
    /\ Len(work.analysis.h2Tags) = 9
    /\ Len(work.keywords) = 8
    /\ work.keywords[1].count > work.keywords[2].count
    /\ work.keywords[1].count = WeightedCount(work.keywords[1].word, work.analysis)
    /\ work.keywords[1].count >= 12
    /\ work.keywords[7].count = work.keywords[8].count
    /\ \A i \in 1..8 : work.keywords[i].word # "india"


\* the sitemap.xml fetch delivered a 2xx response with a non-empty body
SitemapFetched == SitemapAns.net = "ok" /\ SitemapAns.httpOk /\ SitemapAns.text # ""

\* the number of places of the fetched sitemap where <loc> stands
LocsInSitemap ==
    Cardinality({ k \in 1..(Len(SitemapAns.text) - 4) :
                    SubSeq(SitemapAns.text, k, k + 4) = "<loc>" })

\* C23 (as stated): health.pageCount is the number of <loc> occurrences in the fetched
\* sitemap whenever a sitemap was fetched (hasSitemap true), and null exactly when there
\* is no sitemap
C23_PageCountIsLocCount ==
    Recommended =>
        /\ response.health.hasSitemap = SitemapFetched
        /\ response.health.hasSitemap => response.health.pageCount = Some(LocsInSitemap)
        /\ (response.health.pageCount = Null) = ~response.health.hasSitemap

\* C23 (amended): health.pageCount is the number of <loc> occurrences when a sitemap was
\* fetched and holds at least one <loc>; it is null when there is no sitemap and also
\* when the fetched sitemap holds no <loc>
C23_PageCountIsLocCountOrNull ==
    Recommended =>
        /\ response.health.hasSitemap = SitemapFetched
        /\ response.health.pageCount =
              IF SitemapFetched /\ LocsInSitemap > 0 THEN Some(LocsInSitemap) ELSE Null

\* a sitemap with two <loc> entries was fetched
C23_Witness ==
    /\ Recommended
    /\ SitemapFetched
    /\ LocsInSitemap = 2
    /\ response.health.hasSitemap
    /\ response.health.pageCount = Some(2)

\* a sitemap without any <loc> was fetched
C23_WitnessNoLoc ==
    /\ Recommended
    /\ SitemapFetched
    /\ LocsInSitemap = 0
    /\ response.health.hasSitemap
    /\ response.health.pageCount = Null


\* the robots.txt fetch delivered a 2xx response with a non-empty body
RobotsFetched == RobotsAns.net = "ok" /\ RobotsAns.httpOk /\ RobotsAns.text # ""

\* the lines of a text, lower-cased and trimmed
RECURSIVE LinesFrom(_, _)
LinesFrom(s, i) ==
    IF i > Len(s) THEN <<>>
    ELSE LET ends == { k \in i..Len(s) : CharAt(s, k) = "\n" }
             e    == IF ends = {} THEN Len(s) + 1
                     ELSE CHOOSE k \in ends : \A m \in ends : k <= m
         IN  <<Trim(ToLower(SubSeq(s, i, e - 1)))>> \o LinesFrom(s, e + 1)

\* the line names the directive with the value (spaces after the colon do not count)
IsDirective(line, name, value) ==
    /\ StartsWith(line, name \o ":")
    /\ Trim(SubSeq(line, Len(name) + 2, Len(line))) = value

\* the rule right after a "User-agent: *" line is "Disallow: /"
StarBlockOpensWithDisallowRoot(robotsTxt) ==
    LET lines == LinesFrom(robotsTxt, 1)
    IN  \E i \in 1..(Len(lines) - 1) :
            /\ IsDirective(lines[i], "user-agent", "*")
            /\ IsDirective(lines[i + 1], "disallow", "/")

\* C24: blockedByCrawlers is true exactly when robots.txt was fetched and the Disallow
\* rule immediately following its "User-agent: *" line is exactly "/"; a "Disallow: /" of
\* another user-agent's block, or after other rules of the * block, does not set the flag
C24_BlockedOnlyByStarDisallowRoot ==
    Recommended =>
        response.health.blockedByCrawlers
            = (RobotsFetched /\ StarBlockOpensWithDisallowRoot(RobotsAns.text))


\* C25: every critical recommendation of the full sorted list is in the truncated list of
\* the response, at the same place; health.criticalIssues is the number of critical
\* entries the response carries; and criticalIssues + highIssues <= totalIssues
C25_CriticalsAreReturned ==
    Recommended =>
        LET full == work.recommendations
            sent == response.recommendations
        IN  /\ \A i \in 1..Len(full) :
                  full[i].priority = "critical" => i <= Len(sent) /\ sent[i] = full[i]
            /\ response.health.criticalIssues
                  = Cardinality({ i \in 1..Len(sent) : sent[i].priority = "critical" })
            /\ response.health.totalIssues = Len(full)
            /\ response.health.criticalIssues + response.health.highIssues
                  <= response.health.totalIssues

\* four critical recommendations in a list longer than the response carries
C25_Witness ==
    /\ Recommended
    /\ Len(work.recommendations) > 8
    /\ Len(response.recommendations) = 8
    /\ response.health.criticalIssues = 4
    /\ \A i \in 1..4 : response.recommendations[i].priority = "critical"
    /\ response.health.highIssues > 0


\* a pillar result that reached its maximum
AtMaxPoints(p) == p.points = p.maxPoints /\ p.score = 100

\* the signal record given every combination of the eight fields scoreAEO reads
\* (questionH2Count beyond 4 scores as 4 does)
AeoAnalyses(analysis) ==
    { [analysis EXCEPT !.hasFAQSchema = faq, !.hasHowToSchema = howto,
                       !.questionH2Count = q, !.hasOrderedLists = ol,
                       !.hasUnorderedLists = ul, !.hasArticleSchema = art,
                       !.hasBreadcrumbSchema = crumb, !.hasWebSiteSchema = site] :
        faq \in BOOLEAN, howto \in BOOLEAN, q \in 0..5, ol \in BOOLEAN, ul \in BOOLEAN,
        art \in BOOLEAN, crumb \in BOOLEAN, site \in BOOLEAN }

\* a signal record with every on-page signal the other pillars reward
BestAnalysis ==
    [DefaultAnalysis EXCEPT
        !.title = Some("Kitchen fitting and audit plans near you"), !.titleLength = 40,
        !.metaDescription = Some("kitchen"), !.metaDescLength = 140,
        !.canonicalUrl = Some("https://example.com/kitchen"), !.language = Some("en"),
        !.h1Tags = <<"Kitchen">>, !.h2Tags = <<"Plans", "Prices", "Reviews">>,
        !.wordCount = 2000,
        !.ogTitle = Some("Kitchen"), !.ogDescription = Some("Kitchen"),
        !.ogImage = Some("https://example.com/k.png"),
        !.schemaTypes = <<"Organization", "WebSite", "FAQPage">>,
        !.hasOrgSchema = TRUE, !.hasWebSiteSchema = TRUE, !.hasFAQSchema = TRUE,
        !.hasPhone = TRUE, !.hasAddress = TRUE, !.hasEmail = TRUE, !.hasSocialLinks = TRUE,
        !.fetchError = FALSE]

\* C26: each of the six pillars' maxPoints is attainable: for every pillar some Lighthouse
\* scores and signal values give points = maxPoints and a normalized score of 100, the
\* AEO Readiness pillar (maxPoints 20) included, whatever page was audited
C26_EveryMaxPointsAttainable ==
    Recommended =>
    /\ \E perf \in 0..100 : AtMaxPoints(scorePerformance(perf))
    /\ \E lhSeo \in 0..100 :
          AtMaxPoints(scoreTechnicalSEO(lhSeo, BestAnalysis, "https://example.com/kitchen",
                                        [hasRobots |-> TRUE, hasSitemap |-> TRUE],
                                        [canonical |-> Null]))
    /\ AtMaxPoints(scoreContentKeywords(BestAnalysis,
                      <<[word |-> "kitchen", count |-> 14, inTitle |-> TRUE, inH1 |-> TRUE,
                         inMetaDesc |-> TRUE, inURL |-> TRUE]>>))
    /\ AtMaxPoints(scoreGEO(BestAnalysis, "https://example.com/kitchen"))
    /\ \E html \in AeoAnalyses(work.analysis) : AtMaxPoints(scoreAEO(html))
    /\ \E a11y \in 0..100, bp \in 0..100 : AtMaxPoints(scoreAccessibility(a11y, bp))


-----------------------------------------------------------------------------
(* The page component Home (src/app/page.tsx, lines 39 and 440-468).  The   *)
(* variables hold the component's state: pc is stage, reqBody is inputUrl,  *)
(* url is submittedUrl, response is auditData, work is errorMsg; issued     *)
(* counts the calls of fetch("/api/audit") and upstream[r] is the state of  *)
(* the r-th call: fetching, reading (res.json() pending) or done.  The      *)
(* updates one continuation of handleSubmit makes are rendered together.    *)

\* line 39
Stage == {"idle", "loading", "results", "error"}

\* the requests one session of the page sends
Requests == {1, 2, 3}

\* a response body res.json() rejects
Unparseable == [json |-> FALSE]

\* what a call of /api/audit for u settles with: fetch rejects, or resolves with a
\* status that is OK or not and a body that is not JSON, carries an error message, or
\* is the audit of u
AuditAnswers(u) ==
    { [net |-> "failed", ok |-> FALSE, body |-> Unparseable] }
    \cup { [net |-> "ok", ok |-> ok, body |-> body] :
             ok \in BOOLEAN,
             body \in { Unparseable,
                        [json |-> TRUE, error |-> Some(MsgBadUrl)],
                        [json |-> TRUE, error |-> Null, url |-> NormalizeUrl(u)] } }

\* lines 441-445
HomeInit ==
    /\ pc = "idle"
    /\ reqBody = ""
    /\ url = ""
    /\ response = Null
    /\ work = ""
    /\ issued = 0
    /\ upstream = [r \in Requests |-> Unissued]

\* line 492: onChange of the input, which only the idle stage renders
setInputUrl(value) ==
    /\ pc = "idle"
    /\ reqBody' = value
    /\ UNCHANGED <<pc, url, issued, upstream, response, work>>

\* lines 448-455: the form of the idle stage is submitted; up to the call of fetch
handleSubmit ==
    /\ pc = "idle"
    /\ IF Trim(reqBody) = ""
       THEN UNCHANGED vars
       ELSE /\ issued + 1 \in Requests
            /\ url' = Trim(reqBody)
            /\ pc' = "loading"
            /\ work' = ""
            /\ issued' = issued + 1
            /\ upstream' = [upstream EXCEPT ![issued + 1] =
                                [st |-> "fetching", url |-> Trim(reqBody)]]
            /\ UNCHANGED <<reqBody, response>>

\* lines 456 and 462-465: the fetch promise of request r settles; a rejection is caught
FetchSettled(r) ==
    /\ upstream[r].st = "fetching"
    /\ \E ans \in AuditAnswers(upstream[r].url) :
          /\ upstream' = [upstream EXCEPT ![r] =
                             [st |-> IF ans.net = "ok" THEN "reading" ELSE "done",
                              url |-> @.url, net |-> ans.net, ok |-> ans.ok,
                              body |-> ans.body]]
          /\ IF ans.net = "ok"
             THEN UNCHANGED <<pc, work>>
             ELSE /\ work' = "Network error. Please check your connection and try again."
                  /\ pc' = "error"
    /\ UNCHANGED <<reqBody, url, issued, response>>

\* variant that leaves the loading stage only for a body that parses
JsonSettledUncaught(r) ==
    /\ upstream[r].st = "reading"
    /\ upstream' = [upstream EXCEPT ![r].st = "done"]
    /\ LET res == upstream[r]
       IN  IF ~res.body.json
           THEN UNCHANGED <<pc, work, response>>
           ELSE IF ~res.ok \/ Truthy(res.body.error)
           THEN /\ work' = IF res.body.error.some THEN res.body.error.v
                           ELSE "Something went wrong."
                /\ pc' = "error"
                /\ UNCHANGED response
           ELSE /\ response' = Some(res.body)
                /\ pc' = "results"
                /\ UNCHANGED work
    /\ UNCHANGED <<reqBody, url, issued>>

\* variant that shows the body of any response that carries no error
JsonSettledAnyStatus(r) ==
    /\ upstream[r].st = "reading"
    /\ upstream' = [upstream EXCEPT ![r].st = "done"]
    /\ LET res == upstream[r]
       IN  IF ~res.body.json
           THEN /\ work' = "Network error. Please check your connection and try again."
                /\ pc' = "error"
                /\ UNCHANGED response
           ELSE IF Truthy(res.body.error)
           THEN /\ work' = res.body.error.v
                /\ pc' = "error"
                /\ UNCHANGED response
           ELSE /\ response' = Some(res.body)
                /\ pc' = "results"
                /\ UNCHANGED work
    /\ UNCHANGED <<reqBody, url, issued>>

\* lines 457-465: res.json() of request r settles and the rest of handleSubmit runs
JsonSettled(r) ==
    /\ upstream[r].st = "reading"
    /\ upstream' = [upstream EXCEPT ![r].st = "done"]
    /\ LET res == upstream[r]
       IN  IF ~res.body.json
           THEN /\ work' = "Network error. Please check your connection and try again."
                /\ pc' = "error"
                /\ UNCHANGED response
           ELSE IF ~res.ok \/ Truthy(res.body.error)
           THEN /\ work' = IF res.body.error.some THEN res.body.error.v
                           ELSE "Something went wrong."
                /\ pc' = "error"
                /\ UNCHANGED response
           ELSE /\ response' = Some(res.body)
                /\ pc' = "results"
                /\ UNCHANGED work
    /\ UNCHANGED <<reqBody, url, issued>>

\* line 468, offered by the logo (line 472) and the error and results screens
handleReset ==
    /\ pc # "idle"
    /\ pc' = "idle"
    /\ reqBody' = ""
    /\ response' = Null
    /\ work' = ""
    /\ UNCHANGED <<url, issued, upstream>>

HomeNext ==
    \/ \E value \in {"", "  ", "example.com", " shop.example.org "} : setInputUrl(value)
    \/ handleSubmit
    \/ \E r \in Requests : FetchSettled(r)
    \/ \E r \in Requests : JsonSettled(r)
    \/ handleReset

HomeSpec == HomeInit /\ [][HomeNext]_vars

\* every request to /api/audit settles: its fetch promise and then its res.json()
HomeSettlingSpec ==
    /\ HomeSpec
    /\ \A r \in Requests :
          /\ WF_vars(FetchSettled(r))
          /\ WF_vars(JsonSettled(r))



-----------------------------------------------------------------------------
(* Properties of the page component Home                                   *)

\* the response of request r was OK, parsed and carried no error
ShowsResults(res) ==
    res.net = "ok" /\ res.ok /\ res.body.json /\ ~Truthy(res.body.error)

\* C27: once handleReset has run (as after the initial render) the page stays in stage
\* idle with auditData = null and an empty errorMsg until the next submit: no step
\* other than a submit, the settling of an earlier request included, changes them
C27_IdleUntilNextSubmit ==
    [][(pc = "idle" /\ issued' = issued)
          => (pc' = "idle" /\ response' = Null /\ work' = "")]_vars

\* C28: whenever stage is results, auditData is the response to the most recently
\* submitted URL (submittedUrl), and the loading stage of the newest request is ended
\* by that request's response only, never by the response of an older request
C28_ResultsOfLatestSubmit ==
    /\ pc = "results" => response.some /\ response.v.url = NormalizeUrl(url)
    /\ pc \in {"results", "error"} => upstream[issued].st = "done"

\* C29: stage is always one of idle, loading, results, error; whenever stage is results
\* auditData is non-null and is the body of an OK response without an error field;
\* loading is entered only by a submit whose trimmed input is non-empty; idle is
\* entered only initially or by handleReset
C29_StagesAndTheirEntry ==
    /\ [](/\ pc \in Stage
          /\ pc = "results" =>
                /\ response.some
                /\ \E r \in Requests : /\ upstream[r].st = "done"
                                       /\ ShowsResults(upstream[r])
                                       /\ upstream[r].body.error = Null
                                       /\ response.v = upstream[r].body)
    /\ pc = "idle"
    /\ [][/\ (pc' = "loading" /\ pc # "loading")
                => /\ Trim(reqBody) # ""
                   /\ url' = Trim(reqBody)
                   /\ issued' = issued + 1
                   /\ upstream'[issued'].st = "fetching"
          /\ (pc' = "idle" /\ pc # "idle")
                => /\ reqBody' = ""
                   /\ response' = Null
                   /\ work' = ""
                   /\ UNCHANGED <<url, issued, upstream>>]_vars

C29_Witness ==
    /\ pc = "results"
    /\ issued = 2
    /\ upstream[1].st = "done"
    /\ ~ShowsResults(upstream[1])
    /\ upstream[2].st = "done"
    /\ url = "shop.example.org"
    /\ response = Some([json |-> TRUE, error |-> Null, url |-> "https://shop.example.org"])

\* C30: when every request settles, a submit that put the page into stage loading leaves
\* it unless a reset intervenes: the stage is loading only while the newest request is
\* unsettled; the step that settles a request makes the stage results when the
\* response is OK, parses and has no error field, and error in every other case
\* (non-OK status, error field, network failure, unparseable body); and loading leads
\* to results or error with the request settled, or to idle by a reset
C30_LoadingEndsWhenSettled ==
    /\ [](pc = "loading" => upstream[issued].st \in {"fetching", "reading"})
    /\ [][\A r \in Requests :
             (upstream[r].st # "done" /\ upstream'[r].st = "done")
                => pc' = IF ShowsResults(upstream'[r]) THEN "results" ELSE "error"]_vars
    /\ \A r \in Requests :
          (pc = "loading" /\ issued = r)
             ~> ((pc \in {"results", "error"} /\ upstream[r].st = "done") \/ pc = "idle")

C30_Witness ==
    /\ pc = "error"
    /\ issued = 1
    /\ upstream[1].st = "done"
    /\ upstream[1].net = "ok"
    /\ upstream[1].ok
    /\ ~upstream[1].body.json
    /\ work = "Network error. Please check your connection and try again."
    /\ response = Null

=============================================================================
